---------------------------- MODULE Spec2Model ----------------------------
(***************************************************************************)
(* A model of the OID utilities (oid.ToList, oid.FromList, oid.Split) and  *)
(* of the RFC 2579 DISPLAY-HINT formatter (applyDisplayHint with its       *)
(* stack-buffer loop and applyDisplayHintLarge) of snmp_exporter.          *)
(*                                                                         *)
(* Strings and byte slices are sequences of byte values 0..255.  Go        *)
(* positions are 0-based; At(s, i) reads s[i] of the Go code.              *)
(***************************************************************************)
EXTENDS Integers, Sequences, FiniteSets, TLC

(***************************************************************************)
(* Bounds of the model                                                     *)
(***************************************************************************)
\* longest OID drawn as an input to the OID utilities
MaxOidLen == 3
\* largest split point drawn for Split
MaxCount == 4
\* most hint fragments concatenated into one DISPLAY-HINT
MaxSpecs == 2
\* longest byte string drawn exhaustively over DataBytes
MaxDataLen == 3
\* most changes made to the two trees after Node.Copy
MaxEdits == 2
\* most calls of initMIB and getMIBTree in one run
MaxCalls == 3

(***************************************************************************)
(* Bytes and text                                                          *)
(***************************************************************************)
\* ASCII codes of the characters the code and the inputs use
Code ==
  ("*" :> 42) @@ ("+" :> 43) @@ ("-" :> 45) @@ ("." :> 46) @@ ("/" :> 47) @@
  ("0" :> 48) @@ ("1" :> 49) @@ ("2" :> 50) @@ ("3" :> 51) @@ ("4" :> 52) @@
  ("5" :> 53) @@ ("6" :> 54) @@ ("7" :> 55) @@ ("8" :> 56) @@ ("9" :> 57) @@
  (":" :> 58) @@ ("A" :> 65) @@ ("a" :> 97) @@ ("d" :> 100) @@ ("o" :> 111) @@ ("q" :> 113) @@
  ("t" :> 116) @@ ("x" :> 120)

\* the byte string of a text written as a tuple of one-character strings
Str(s) == [i \in 1..Len(s) |-> Code[s[i]]]

\* s[i] of the Go code (0-based); -1 stands for an out-of-range read
At(s, i) == IF i >= 0 /\ i < Len(s) THEN s[i + 1] ELSE -1

\* s[from:to] of the Go code (0-based, to exclusive)
Slice(s, from, to) == SubSeq(s, from + 1, to)

isDigit(c) == c >= Code["0"] /\ c <= Code["9"]

\* the element of a one-element set.  Only({F(v) : v \in {e}}) is F(e) with e
\* evaluated once, before F
Only(S) == CHOOSE x \in S : TRUE

RECURSIVE Concat(_)
\* the concatenation of a sequence of sequences
Concat(ss) == IF ss = <<>> THEN <<>> ELSE Head(ss) \o Concat(Tail(ss))

RECURSIVE SeqsUpTo(_, _)
\* all sequences over S of length at most n
SeqsUpTo(S, n) ==
  IF n = 0 THEN {<<>>}
  ELSE LET shorter == SeqsUpTo(S, n - 1)
       IN shorter \cup {Append(s, x) : s \in {t \in shorter : Len(t) = n - 1}, x \in S}

(***************************************************************************)
(* strconv.Itoa and strconv.Atoi                                           *)
(***************************************************************************)
RECURSIVE FormatNat(_)
\* the decimal digits of n >= 0, most significant first, no leading zeros
FormatNat(n) ==
  IF n < 10 THEN <<Code["0"] + n>>
  ELSE Append(FormatNat(n \div 10), Code["0"] + (n % 10))

\* strconv.Itoa
Itoa(n) == IF n < 0 THEN <<Code["-"]>> \o FormatNat(0 - n) ELSE FormatNat(n)

RECURSIVE ParseDigits(_, _, _)
\* the value of the digits s[i..] appended to acc, or -1 on a non-digit
ParseDigits(s, i, acc) ==
  IF i > Len(s) THEN acc
  ELSE IF ~isDigit(s[i]) THEN -1
  ELSE ParseDigits(s, i + 1, acc * 10 + (s[i] - Code["0"]))

\* strconv.Atoi with its error dropped (o, _ := strconv.Atoi(x)): a syntax
\* error yields 0.  Inputs stay below 10 digits, so no range error arises.
Atoi(s) ==
  LET signed == Len(s) > 0 /\ s[1] \in {Code["-"], Code["+"]}
      digits == IF signed THEN Tail(s) ELSE s
      n      == IF digits = <<>> THEN -1 ELSE ParseDigits(digits, 1, 0)
  IN IF n < 0 THEN 0
     ELSE IF signed /\ s[1] = Code["-"] THEN 0 - n ELSE n

(***************************************************************************)
(* oid.ToList, oid.FromList, oid.Split                                     *)
(***************************************************************************)
RECURSIVE SplitSeq(_, _)
\* strings.SplitSeq(s, sep): the segments of s between occurrences of sep;
\* always at least one segment (the empty string gives one empty segment)
SplitSeq(s, sep) ==
  IF \A i \in 1..Len(s) : s[i] # sep THEN <<s>>
  ELSE LET k == CHOOSE i \in 1..Len(s) : s[i] = sep /\ \A j \in 1..(i - 1) : s[j] # sep
       IN <<SubSeq(s, 1, k - 1)>> \o SplitSeq(SubSeq(s, k + 1, Len(s)), sep)

\* a ToList that leaves out the empty segments
ToListSkipEmpty(oid) ==
  LET segs == SplitSeq(oid, Code["."])
      kept == SelectSeq(segs, LAMBDA x : x # <<>>)
  IN [i \in 1..Len(kept) |-> Atoi(kept[i])]

\* oid.ToList
ToList(oid) ==
  LET segs == SplitSeq(oid, Code["."])
  IN [i \in 1..Len(segs) |-> Atoi(segs[i])]

RECURSIVE FromListFrom(_, _)
\* the loop of FromList from index i (0-based) on
FromListFrom(l, i) ==
  IF i >= Len(l) THEN <<>>
  ELSE (IF i > 0 THEN <<Code["."]>> ELSE <<>>) \o Itoa(l[i + 1]) \o FromListFrom(l, i + 1)

\* a FromList that writes the dot after every component
FromListTrailingDot(l) == Concat([i \in 1..Len(l) |-> Itoa(l[i]) \o <<Code["."]>>])

\* oid.FromList
FromList(l) == IF Len(l) = 0 THEN <<>> ELSE FromListFrom(l, 0)

\* a Split whose head is not padded: it stops where the oid stops
SplitNoPad(oid, count) ==
  [head |-> SubSeq(oid, 1, IF count < Len(oid) THEN count ELSE Len(oid)),
   tail |-> SubSeq(oid, count + 1, Len(oid))]

RECURSIVE SplitLoop(_, _, _, _, _)
\* the loop of Split: for i, v := range oid (i 0-based)
SplitLoop(oid, count, i, head, tail) ==
  IF i >= Len(oid) THEN [head |-> head, tail |-> tail]
  ELSE IF i < count
       THEN SplitLoop(oid, count, i + 1, [head EXCEPT ![i + 1] = oid[i + 1]], tail)
       ELSE SplitLoop(oid, count, i + 1, head, Append(tail, oid[i + 1]))

\* oid.Split: head := make([]int, count) is all zeros, tail starts empty
Split(oid, count) == SplitLoop(oid, count, 0, [i \in 1..count |-> 0], <<>>)

(***************************************************************************)
(* The reference implementations kept in the benchmark                     *)
(***************************************************************************)
RECURSIVE oidToListOriginalLoop(_, _, _)
\* for x := range strings.SplitSeq(oid, ".") { result = append(result, o) }
oidToListOriginalLoop(segs, i, result) ==
  IF i > Len(segs) THEN result
  ELSE oidToListOriginalLoop(segs, i + 1, Append(result, Atoi(segs[i])))

\* oidToListOriginal: result := []int{}
oidToListOriginal(oid) == oidToListOriginalLoop(SplitSeq(oid, Code["."]), 1, <<>>)

RECURSIVE Join(_, _, _)
\* strings.Join(elems, sep) from element i (1-based) on: no elements give "",
\* otherwise the first element, then sep and an element for each other one
Join(elems, sep, i) ==
  IF i > Len(elems) THEN <<>>
  ELSE IF i = 1 THEN elems[1] \o Join(elems, sep, 2)
  ELSE <<sep>> \o elems[i] \o Join(elems, sep, i + 1)

\* listToOidOriginal: the Itoa of every component, joined with "."
listToOidOriginal(l) == Join([i \in 1..Len(l) |-> Itoa(l[i])], Code["."], 1)

RECURSIVE splitOidOriginalLoop(_, _, _, _, _)
\* the loop of splitOidOriginal: for i, v := range oid (i 0-based)
splitOidOriginalLoop(oid, count, i, head, tail) ==
  IF i = Len(oid) THEN <<head, tail>>
  ELSE IF i < count
       THEN splitOidOriginalLoop(oid, count, i + 1,
                                 [j \in 1..count |-> IF j = i + 1 THEN oid[i + 1] ELSE head[j]],
                                 tail)
       ELSE splitOidOriginalLoop(oid, count, i + 1, head, tail \o <<oid[i + 1]>>)

\* splitOidOriginal: head := make([]int, count), tail := []int{}
splitOidOriginal(oid, count) ==
  splitOidOriginalLoop(oid, count, 0, [j \in 1..count |-> 0], <<>>)

(***************************************************************************)
(* Machine integers.  Go's int is 32 or 64 bits wide depending on the      *)
(* build; uint64 is 64 bits.  A machine integer is its two's-complement    *)
(* bit pattern: a sequence of bytes, least significant first.              *)
(***************************************************************************)
RECURSIVE ToWord(_, _)
\* the w-byte pattern of n, 0 <= n
ToWord(n, w) == IF w = 0 THEN <<>> ELSE <<n % 256>> \o ToWord(n \div 256, w - 1)

RECURSIVE MulAddWord(_, _, _, _)
\* a * m + c wrapped to the width of a (from byte i on, c the carry)
MulAddWord(a, m, c, i) ==
  IF i > Len(a) THEN <<>>
  ELSE LET v == a[i] * m + c
       IN <<v % 256>> \o MulAddWord(a, m, v \div 256, i + 1)

RECURSIVE AddWord(_, _, _, _)
\* a + b wrapped to their width (from byte i on, c the carry)
AddWord(a, b, c, i) ==
  IF i > Len(a) THEN <<>>
  ELSE LET v == a[i] + b[i] + c
       IN <<v % 256>> \o AddWord(a, b, v \div 256, i + 1)

\* the sign bit
IsNegWord(a) == a[Len(a)] >= 128

IsZeroWord(a) == \A i \in 1..Len(a) : a[i] = 0

\* a < b as signed integers of the same width
LessWord(a, b) ==
  IF IsNegWord(a) # IsNegWord(b) THEN IsNegWord(a)
  ELSE \E i \in 1..Len(a) :
         /\ a[i] < b[i]
         /\ \A j \in (i + 1)..Len(a) : a[j] = b[j]

RECURSIVE WordValue(_, _)
\* the value of a small non-negative word (bytes i.. of it)
WordValue(a, i) == IF i > Len(a) THEN 0 ELSE a[i] + 256 * WordValue(a, i + 1)

RECURSIVE DivWord(_, _, _, _)
\* long division of word a by the small number b, from the top byte i down:
\* the quotient's bytes 1..i and the remainder
DivWord(a, b, i, rem) ==
  IF i = 0 THEN [q |-> <<>>, rem |-> rem]
  ELSE Only({ [q |-> Append(rest.q, cur \div b), rem |-> rest.rem] :
               cur \in {rem * 256 + a[i]},
               rest \in {DivWord(a, b, i - 1, (rem * 256 + a[i]) % b)} })

RECURSIVE AppendUint(_, _)
\* strconv.AppendUint(nil, val, base) for base <= 10: the digits of the
\* uint64 val, most significant first; "0" for zero
AppendUint(val, base) ==
  Only({ IF IsZeroWord(d.q) THEN <<Code["0"] + d.rem>>
         ELSE Append(AppendUint(d.q, base), Code["0"] + d.rem) :
         d \in {DivWord(val, base, Len(val), 0)} })

RECURSIVE BigEndianFirstEight(_, _, _)
\* a read of the chunk that stops after eight bytes
BigEndianFirstEight(chunk, i, val) ==
  IF i > Len(chunk) \/ i > 8 THEN val
  ELSE Only({ BigEndianFirstEight(chunk, i + 1, shifted) :
               shifted \in {<<chunk[i]>> \o SubSeq(val, 1, Len(val) - 1)} })

RECURSIVE BigEndian(_, _, _)
\* var val uint64; for _, b := range chunk { val = (val << 8) | uint64(b) }
BigEndian(chunk, i, val) ==
  IF i > Len(chunk) THEN val
  ELSE Only({ BigEndian(chunk, i + 1, shifted) :
               shifted \in {<<chunk[i]>> \o SubSeq(val, 1, Len(val) - 1)} })

\* a digit table with lowercase letters
hexDigitsLower(n) == IF n < 10 THEN Code["0"] + n ELSE Code["a"] + (n - 10)

\* hexDigits[n]
hexDigits(n) == IF n < 10 THEN Code["0"] + n ELSE Code["A"] + (n - 10)

(***************************************************************************)
(* estimateOutputSize                                                      *)
(***************************************************************************)
smallBufferSize == 64

RECURSIVE estimateFrom(_, _, _)
\* the backwards scan of estimateOutputSize from position i (0-based)
estimateFrom(hint, dataLen, i) ==
  IF i < 0 THEN dataLen * 4 + 1
  ELSE IF At(hint, i) \in {Code["a"], Code["t"]} THEN dataLen + (dataLen \div 8) + 1
  ELSE IF At(hint, i) = Code["x"] THEN dataLen * 3 + 1
  ELSE IF At(hint, i) \in {Code["d"], Code["o"]} THEN dataLen * 4 + 1
  ELSE estimateFrom(hint, dataLen, i - 1)

estimateOutputSize(hint, dataLen) == estimateFrom(hint, dataLen, Len(hint) - 1)

(***************************************************************************)
(* One spec of the hint, as the stack-buffer loop of applyDisplayHint      *)
(* parses it.  w is the width of int in bytes.                             *)
(***************************************************************************)
RECURSIVE TakeDigits(_, _, _)
\* for hintPos < len(hint) && isDigit(hint[hintPos]) {
\*     take = take*10 + int(hint[hintPos]-'0'); hintPos++ }
TakeDigits(hint, hintPos, take) ==
  IF hintPos < Len(hint) /\ isDigit(At(hint, hintPos))
  THEN Only({ TakeDigits(hint, pos, next) :
               pos \in {hintPos + 1},
               next \in {MulAddWord(take, 10, At(hint, hintPos) - Code["0"], 1)} })
  ELSE [take |-> take, hintPos |-> hintPos]

\* if hintPos >= len(hint) { return "", false }   (expected format character)
FormatCharMissing(hint, hintPos) == hintPos >= Len(hint)

\* a format check that lets every lower-case letter through
ValidFormatAnyLetter(c) == c >= Code["a"]

\* fmtChar != 'd' && fmtChar != 'x' && fmtChar != 'o' && fmtChar != 'a' &&
\* fmtChar != 't' is an invalid format character
ValidFormat(c) == c \in {Code["d"], Code["x"], Code["o"], Code["a"], Code["t"]}

\* a loop guard that never bails
NoProgressNever(lastSpecConsumesByte) == FALSE

\* if !lastSpecConsumesByte { return "", false }
NoProgress(lastSpecConsumesByte) == ~lastSpecConsumesByte

\* an implicit repetition that starts the hint over
SpecStartFromZero(exhausted, hintPos, lastSpecStart) ==
  IF exhausted THEN 0 ELSE hintPos

\* specStart := hintPos
\* if hintPos >= len(hint) { hintPos = lastSpecStart; specStart = lastSpecStart }
SpecStart(exhausted, hintPos, lastSpecStart) ==
  IF exhausted THEN lastSpecStart ELSE hintPos

\* The head of one loop iteration: implicit repetition, then the parse of one
\* spec.  status is "ok", "fail" (return "", false) or "panic" (an index out
\* of range).
ParseSpec(hint, hintPos0, lastSpecStart, lastSpecConsumesByte, w) ==
  LET exhausted  == hintPos0 >= Len(hint)
      specStart  == SpecStart(exhausted, hintPos0, lastSpecStart)
      starPrefix == specStart < Len(hint) /\ At(hint, specStart) = Code["*"]
      p1         == IF starPrefix THEN specStart + 1 ELSE specStart
      noDigits   == p1 >= Len(hint) \/ ~isDigit(At(hint, p1))
  IN Only({
    LET take       == digits.take
        p2         == digits.hintPos
        fmtChar    == At(hint, p2)
        p3         == p2 + 1
        hasSep     == p3 < Len(hint) /\ ~isDigit(At(hint, p3)) /\ At(hint, p3) # Code["*"]
        p4         == IF hasSep THEN p3 + 1 ELSE p3
        hasTerm    == starPrefix /\ p4 < Len(hint) /\ ~isDigit(At(hint, p4))
                      /\ At(hint, p4) # Code["*"]
        p5         == IF hasTerm THEN p4 + 1 ELSE p4
        status     ==
          IF exhausted /\ NoProgress(lastSpecConsumesByte) THEN "fail"
          ELSE IF noDigits THEN "fail"
          ELSE IF IsNegWord(take) THEN "fail"
          ELSE IF FormatCharMissing(hint, p2) THEN "fail"
          ELSE IF fmtChar = -1 THEN "panic"
          ELSE IF ~ValidFormat(fmtChar) THEN "fail"
          ELSE "ok"
    IN [status |-> status, specStart |-> specStart, hintPos |-> p5,
        starPrefix |-> starPrefix, take |-> take, fmtChar |-> fmtChar,
        hasSep |-> hasSep, sep |-> IF hasSep THEN At(hint, p3) ELSE 0,
        hasTerm |-> hasTerm, term |-> IF hasTerm THEN At(hint, p4) ELSE 0,
        consumes |-> (~IsNegWord(take) /\ ~IsZeroWord(take)) \/ starPrefix] :
    digits \in {TakeDigits(hint, p1, ToWord(0, w))} })

\* an end that is not cut down to the length of the input
ChunkEndNoClamp(dataPos, take, dataLen) ==
  Only({ Only({ IF LessWord(end, posW) THEN lenW ELSE end :
                end \in {AddWord(posW, take, 0, 1)} }) :
         posW \in {ToWord(dataPos, Len(take))},
         lenW \in {ToWord(dataLen, Len(take))} })

\* an end computed without the check for a wrapped sum
ChunkEndNoWrapCheck(dataPos, take, dataLen) ==
  Only({ Only({ IF LessWord(lenW, end) THEN lenW ELSE end :
                end \in {AddWord(posW, take, 0, 1)} }) :
         posW \in {ToWord(dataPos, Len(take))},
         lenW \in {ToWord(dataLen, Len(take))} })

\* end := dataPos + take
\* if end > len(data) || end < dataPos { end = len(data) }
ChunkEnd(dataPos, take, dataLen) ==
  Only({ Only({ IF LessWord(lenW, end) \/ LessWord(end, posW) THEN lenW ELSE end :
                end \in {AddWord(posW, take, 0, 1)} }) :
         posW \in {ToWord(dataPos, Len(take))},
         lenW \in {ToWord(dataLen, Len(take))} })

\* whether data[dataPos:end] is a legal slice: 0 <= dataPos <= end <= len(data)
SliceInRange(dataPos, end, dataLen) ==
  Only({ ~LessWord(end, posW) /\ ~LessWord(lenW, end) :
         posW \in {ToWord(dataPos, Len(end))},
         lenW \in {ToWord(dataLen, Len(end))} })

\* whether dataPos + take wrapped around
SumWrapped(dataPos, take) ==
  Only({ Only({ LessWord(sum, posW) : sum \in {AddWord(posW, take, 0, 1)} }) :
         posW \in {ToWord(dataPos, Len(take))} })

\* the uint64 that a 'd' or 'o' chunk is read as, in the given base
FormatUint(chunk, base) ==
  Only({ AppendUint(val, base) : val \in {BigEndian(chunk, 1, ToWord(0, 8))} })

\* the text of one chunk
FormatChunk(fmtChar, chunk) ==
  IF fmtChar = Code["d"] THEN FormatUint(chunk, 10)
  ELSE IF fmtChar = Code["x"]
       THEN Concat([i \in 1..Len(chunk) |->
                      <<hexDigits(chunk[i] \div 16), hexDigits(chunk[i] % 16)>>])
  ELSE IF fmtChar = Code["o"] THEN FormatUint(chunk, 8)
  ELSE chunk

\* a separator that is written even when no input is left
EmitSepAlways(hasSep, moreData, hasTerm, r, repeatCount) ==
  hasSep /\ (~hasTerm \/ r # repeatCount - 1)

\* if hasSep && moreData && (!hasTerm || r != repeatCount-1)
EmitSep(hasSep, moreData, hasTerm, r, repeatCount) ==
  hasSep /\ moreData /\ (~hasTerm \/ r # repeatCount - 1)

\* a terminator that is written even when no input is left
EmitTermAlways(hasTerm, dataPos, dataLen) == hasTerm

\* if hasTerm && dataPos < len(data)
EmitTerm(hasTerm, dataPos, dataLen) == hasTerm /\ dataPos < dataLen

\* The body of the loop "for r := 0; r < repeatCount && dataPos < len(data);
\* r++", run once from the loop state ls when the loop's condition holds.
\* Every applied instance is noted in the log: the input it took (from, to)
\* and the length of the output before it (out0), after its chunk (out1) and
\* after its separator (out2).
ApplyOnce(data, spec, repeatCount, ls) ==
  IF ls.status # "ok" \/ ~(ls.r < repeatCount /\ ls.dataPos < Len(data))
  THEN ls
  ELSE Only({
    IF ~SliceInRange(ls.dataPos, endW, Len(data))
    THEN [ls EXCEPT !.status = "panic"]
    ELSE Only({
      LET end      == WordValue(endW, 1)
          moreData == end < Len(data)
          out      == IF EmitSep(spec.hasSep, moreData, spec.hasTerm, ls.r, repeatCount)
                      THEN Append(text, spec.sep)
                      ELSE text
          ev       == [kind |-> "chunk", at |-> spec.specStart,
                       star |-> spec.starPrefix, fmt |-> spec.fmtChar,
                       hasSep |-> spec.hasSep, sep |-> spec.sep,
                       hasTerm |-> spec.hasTerm, term |-> spec.term,
                       r |-> ls.r, n |-> repeatCount,
                       wrapped |-> SumWrapped(ls.dataPos, spec.take),
                       from |-> ls.dataPos, to |-> end,
                       out0 |-> Len(ls.result), out1 |-> Len(text), out2 |-> Len(out)]
      IN [status |-> "ok", r |-> ls.r + 1, dataPos |-> end, result |-> out,
          log |-> Append(ls.log, ev)] :
      text \in {Only({ ls.result \o FormatChunk(spec.fmtChar, chunk) :
                         chunk \in {Slice(data, ls.dataPos, WordValue(endW, 1))} })} }) :
    endW \in {ChunkEnd(ls.dataPos, spec.take, Len(data))} })

RECURSIVE ApplyTimes(_, _, _, _, _)
\* n passes of the loop, one after the other (the first half, then the rest)
ApplyTimes(data, spec, repeatCount, ls, n) ==
  IF n = 0 \/ ls.status # "ok" THEN ls
  ELSE IF n = 1 THEN ApplyOnce(data, spec, repeatCount, ls)
  ELSE Only({ Only({ ApplyTimes(data, spec, repeatCount, half, rest) :
                      half \in {ApplyTimes(data, spec, repeatCount, ls, first)} }) :
               first \in {n \div 2}, rest \in {n - (n \div 2)} })

\* a loop that tests its condition after the body: one pass for a count of 0
ApplyLoopBodyFirst(data, spec, repeatCount, dataPos, result, log) ==
  Only({ ApplyTimes(data, spec, n, ls, n) :
         n \in {IF repeatCount = 0 THEN 1 ELSE repeatCount},
         ls \in {[status |-> "ok", r |-> 0, dataPos |-> dataPos, result |-> result,
                  log |-> log]} })

\* the whole loop: it runs at most repeatCount times
ApplyLoop(data, spec, repeatCount, dataPos, result, log) ==
  Only({ ApplyTimes(data, spec, repeatCount, ls, repeatCount) :
         ls \in {[status |-> "ok", r |-> 0, dataPos |-> dataPos, result |-> result,
                  log |-> log]} })

\* a repeat count that is read but left in the input
AfterCountStay(readCount, dataPos) == dataPos

\* repeatCount = int(data[dataPos]); dataPos++
AfterCount(readCount, dataPos) == IF readCount THEN dataPos + 1 ELSE dataPos

\* The rest of an iteration once its spec is parsed: read the repeat count,
\* apply the spec, emit the terminator.  A group entry in the log closes the
\* iteration: r is the number of instances applied, out1 and out2 the output
\* length before and after the terminator.
ApplySpec(data, st, spec) ==
  LET readCount == spec.starPrefix /\ st.dataPos < Len(data)
  IN Only({ Only({
       LET out == IF EmitTerm(spec.hasTerm, loop.dataPos, Len(data))
                  THEN Append(loop.result, spec.term)
                  ELSE loop.result
           ev  == [kind |-> "group", at |-> spec.specStart,
                   star |-> spec.starPrefix, fmt |-> spec.fmtChar,
                   hasSep |-> spec.hasSep, sep |-> spec.sep,
                   hasTerm |-> spec.hasTerm, term |-> spec.term,
                   r |-> Len(loop.log) - Len(st.log), n |-> repeatCount,
                   wrapped |-> FALSE,
                   from |-> st.dataPos, to |-> loop.dataPos,
                   out0 |-> Len(st.result), out1 |-> Len(loop.result),
                   out2 |-> Len(out)]
       IN [status |-> loop.status, hintPos |-> spec.hintPos, dataPos |-> loop.dataPos,
           lastSpecStart |-> spec.specStart, lastSpecConsumesByte |-> spec.consumes,
           result |-> out, log |-> Append(loop.log, ev)] :
       loop \in {ApplyLoop(data, spec, repeatCount, dataPos1, st.result, st.log)} }) :
     repeatCount \in {IF readCount THEN At(data, st.dataPos) ELSE 1},
     dataPos1    \in {AfterCount(readCount, st.dataPos)} })

\* One iteration of the loop "for dataPos < len(data)" of applyDisplayHint.
\* st holds the loop's variables.
Iteration(hint, data, st, w) ==
  Only({ IF spec.status # "ok" THEN [st EXCEPT !.status = spec.status]
         ELSE ApplySpec(data, st, spec) :
         spec \in {ParseSpec(hint, st.hintPos, st.lastSpecStart,
                             st.lastSpecConsumesByte, w)} })

(***************************************************************************)
(* applyDisplayHintLarge: the same loop written a second time over a       *)
(* strings.Builder.  Its copies of the steps carry the suffix Large.       *)
(***************************************************************************)
RECURSIVE TakeDigitsLarge(_, _, _)
\* for hintPos < len(hint) && isDigit(hint[hintPos]) {
\*     take = take*10 + int(hint[hintPos]-'0'); hintPos++ }
TakeDigitsLarge(hint, hintPos, take) ==
  IF hintPos < Len(hint) /\ isDigit(At(hint, hintPos))
  THEN Only({ TakeDigitsLarge(hint, pos, next) :
               pos \in {hintPos + 1},
               next \in {MulAddWord(take, 10, At(hint, hintPos) - Code["0"], 1)} })
  ELSE [take |-> take, hintPos |-> hintPos]

\* if hintPos >= len(hint) { return "", false }   (expected format character)
FormatCharMissingLarge(hint, hintPos) == hintPos >= Len(hint)

\* if !lastSpecConsumesByte { return "", false }
NoProgressLarge(lastSpecConsumesByte) == ~lastSpecConsumesByte

ValidFormatLarge(c) == c \in {Code["d"], Code["x"], Code["o"], Code["a"], Code["t"]}

\* specStart := hintPos
\* if hintPos >= len(hint) { hintPos = lastSpecStart; specStart = lastSpecStart }
SpecStartLarge(exhausted, hintPos, lastSpecStart) ==
  IF exhausted THEN lastSpecStart ELSE hintPos

\* The head of one loop iteration of applyDisplayHintLarge: implicit repetition, then the parse of one
\* spec.  status is "ok", "fail" (return "", false) or "panic" (an index out
\* of range).
ParseSpecLarge(hint, hintPos0, lastSpecStart, lastSpecConsumesByte, w) ==
  LET exhausted  == hintPos0 >= Len(hint)
      specStart  == SpecStartLarge(exhausted, hintPos0, lastSpecStart)
      starPrefix == specStart < Len(hint) /\ At(hint, specStart) = Code["*"]
      p1         == IF starPrefix THEN specStart + 1 ELSE specStart
      noDigits   == p1 >= Len(hint) \/ ~isDigit(At(hint, p1))
  IN Only({
    LET take       == digits.take
        p2         == digits.hintPos
        fmtChar    == At(hint, p2)
        p3         == p2 + 1
        hasSep     == p3 < Len(hint) /\ ~isDigit(At(hint, p3)) /\ At(hint, p3) # Code["*"]
        p4         == IF hasSep THEN p3 + 1 ELSE p3
        hasTerm    == starPrefix /\ p4 < Len(hint) /\ ~isDigit(At(hint, p4))
                      /\ At(hint, p4) # Code["*"]
        p5         == IF hasTerm THEN p4 + 1 ELSE p4
        status     ==
          IF exhausted /\ NoProgressLarge(lastSpecConsumesByte) THEN "fail"
          ELSE IF noDigits THEN "fail"
          ELSE IF IsNegWord(take) THEN "fail"
          ELSE IF FormatCharMissingLarge(hint, p2) THEN "fail"
          ELSE IF fmtChar = -1 THEN "panic"
          ELSE IF ~ValidFormatLarge(fmtChar) THEN "fail"
          ELSE "ok"
    IN [status |-> status, specStart |-> specStart, hintPos |-> p5,
        starPrefix |-> starPrefix, take |-> take, fmtChar |-> fmtChar,
        hasSep |-> hasSep, sep |-> IF hasSep THEN At(hint, p3) ELSE 0,
        hasTerm |-> hasTerm, term |-> IF hasTerm THEN At(hint, p4) ELSE 0,
        consumes |-> (~IsNegWord(take) /\ ~IsZeroWord(take)) \/ starPrefix] :
    digits \in {TakeDigitsLarge(hint, p1, ToWord(0, w))} })

\* end := dataPos + take
\* if end > len(data) || end < dataPos { end = len(data) }
ChunkEndLarge(dataPos, take, dataLen) ==
  Only({ Only({ IF LessWord(lenW, end) \/ LessWord(end, posW) THEN lenW ELSE end :
                end \in {AddWord(posW, take, 0, 1)} }) :
         posW \in {ToWord(dataPos, Len(take))},
         lenW \in {ToWord(dataLen, Len(take))} })

\* the text of one chunk
FormatChunkLarge(fmtChar, chunk) ==
  IF fmtChar = Code["d"] THEN FormatUint(chunk, 10)
  ELSE IF fmtChar = Code["x"]
       THEN Concat([i \in 1..Len(chunk) |->
                      <<hexDigits(chunk[i] \div 16), hexDigits(chunk[i] % 16)>>])
  ELSE IF fmtChar = Code["o"] THEN FormatUint(chunk, 8)
  ELSE chunk

\* a separator rule that forgets the terminator
EmitSepLargeNoTerm(hasSep, moreData, hasTerm, r, repeatCount) == hasSep /\ moreData

\* if hasSep && moreData && (!hasTerm || r != repeatCount-1)
EmitSepLarge(hasSep, moreData, hasTerm, r, repeatCount) ==
  hasSep /\ moreData /\ (~hasTerm \/ r # repeatCount - 1)

\* if hasTerm && dataPos < len(data)
EmitTermLarge(hasTerm, dataPos, dataLen) == hasTerm /\ dataPos < dataLen

\* The body of the loop "for r := 0; r < repeatCount && dataPos < len(data);
\* r++", run once from the loop state ls when the loop's condition holds.
\* Every applied instance is noted in the log: the input it took (from, to)
\* and the length of the output before it (out0), after its chunk (out1) and
\* after its separator (out2).
ApplyOnceLarge(data, spec, repeatCount, ls) ==
  IF ls.status # "ok" \/ ~(ls.r < repeatCount /\ ls.dataPos < Len(data))
  THEN ls
  ELSE Only({
    IF ~SliceInRange(ls.dataPos, endW, Len(data))
    THEN [ls EXCEPT !.status = "panic"]
    ELSE Only({
      LET end      == WordValue(endW, 1)
          moreData == end < Len(data)
          out      == IF EmitSepLarge(spec.hasSep, moreData, spec.hasTerm, ls.r, repeatCount)
                      THEN Append(text, spec.sep)
                      ELSE text
          ev       == [kind |-> "chunk", at |-> spec.specStart,
                       star |-> spec.starPrefix, fmt |-> spec.fmtChar,
                       hasSep |-> spec.hasSep, sep |-> spec.sep,
                       hasTerm |-> spec.hasTerm, term |-> spec.term,
                       r |-> ls.r, n |-> repeatCount,
                       wrapped |-> SumWrapped(ls.dataPos, spec.take),
                       from |-> ls.dataPos, to |-> end,
                       out0 |-> Len(ls.result), out1 |-> Len(text), out2 |-> Len(out)]
      IN [status |-> "ok", r |-> ls.r + 1, dataPos |-> end, result |-> out,
          log |-> Append(ls.log, ev)] :
      text \in {Only({ ls.result \o FormatChunkLarge(spec.fmtChar, chunk) :
                         chunk \in {Slice(data, ls.dataPos, WordValue(endW, 1))} })} }) :
    endW \in {ChunkEndLarge(ls.dataPos, spec.take, Len(data))} })

RECURSIVE ApplyTimesLarge(_, _, _, _, _)
\* n passes of the loop, one after the other (the first half, then the rest)
ApplyTimesLarge(data, spec, repeatCount, ls, n) ==
  IF n = 0 \/ ls.status # "ok" THEN ls
  ELSE IF n = 1 THEN ApplyOnceLarge(data, spec, repeatCount, ls)
  ELSE Only({ Only({ ApplyTimesLarge(data, spec, repeatCount, half, rest) :
                      half \in {ApplyTimesLarge(data, spec, repeatCount, ls, first)} }) :
               first \in {n \div 2}, rest \in {n - (n \div 2)} })

\* the whole loop: it runs at most repeatCount times
ApplyLoopLarge(data, spec, repeatCount, dataPos, result, log) ==
  Only({ ApplyTimesLarge(data, spec, repeatCount, ls, repeatCount) :
         ls \in {[status |-> "ok", r |-> 0, dataPos |-> dataPos, result |-> result,
                  log |-> log]} })

\* repeatCount = int(data[dataPos]); dataPos++
AfterCountLarge(readCount, dataPos) == IF readCount THEN dataPos + 1 ELSE dataPos

\* The rest of an iteration once its spec is parsed: read the repeat count,
\* apply the spec, emit the terminator.  A group entry in the log closes the
\* iteration: r is the number of instances applied, out1 and out2 the output
\* length before and after the terminator.
ApplySpecLarge(data, st, spec) ==
  LET readCount == spec.starPrefix /\ st.dataPos < Len(data)
  IN Only({ Only({
       LET out == IF EmitTermLarge(spec.hasTerm, loop.dataPos, Len(data))
                  THEN Append(loop.result, spec.term)
                  ELSE loop.result
           ev  == [kind |-> "group", at |-> spec.specStart,
                   star |-> spec.starPrefix, fmt |-> spec.fmtChar,
                   hasSep |-> spec.hasSep, sep |-> spec.sep,
                   hasTerm |-> spec.hasTerm, term |-> spec.term,
                   r |-> Len(loop.log) - Len(st.log), n |-> repeatCount,
                   wrapped |-> FALSE,
                   from |-> st.dataPos, to |-> loop.dataPos,
                   out0 |-> Len(st.result), out1 |-> Len(loop.result),
                   out2 |-> Len(out)]
       IN [status |-> loop.status, hintPos |-> spec.hintPos, dataPos |-> loop.dataPos,
           lastSpecStart |-> spec.specStart, lastSpecConsumesByte |-> spec.consumes,
           result |-> out, log |-> Append(loop.log, ev)] :
       loop \in {ApplyLoopLarge(data, spec, repeatCount, dataPos1, st.result, st.log)} }) :
     repeatCount \in {IF readCount THEN At(data, st.dataPos) ELSE 1},
     dataPos1    \in {AfterCountLarge(readCount, st.dataPos)} })

\* One iteration of the loop "for dataPos < len(data)" of applyDisplayHintLarge.
\* st holds the loop's variables.
IterationLarge(hint, data, st, w) ==
  Only({ IF spec.status # "ok" THEN [st EXCEPT !.status = spec.status]
         ELSE ApplySpecLarge(data, st, spec) :
         spec \in {ParseSpecLarge(hint, st.hintPos, st.lastSpecStart,
                             st.lastSpecConsumesByte, w)} })

(***************************************************************************)
(* applyDisplayHint of display_hint.go, the version with a single path     *)
(* over a strings.Builder.  Its steps carry the suffix Original.           *)
(***************************************************************************)
RECURSIVE TakeDigitsOriginal(_, _, _)
\* for hintPos < len(hint) && hint[hintPos] >= '0' && hint[hintPos] <= '9' {
\*     take = take*10 + int(hint[hintPos]-'0'); hintPos++ }
TakeDigitsOriginal(hint, hintPos, take) ==
  IF hintPos < Len(hint) /\ isDigit(At(hint, hintPos))
  THEN Only({ TakeDigitsOriginal(hint, pos, next) :
               pos \in {hintPos + 1},
               next \in {MulAddWord(take, 10, At(hint, hintPos) - Code["0"], 1)} })
  ELSE [take |-> take, hintPos |-> hintPos]

\* if hintPos >= len(hint) { return "", false }   (expected format character)
FormatCharMissingOriginal(hint, hintPos) == hintPos >= Len(hint)

\* if !lastSpecConsumesByte { return "", false }
NoProgressOriginal(lastSpecConsumesByte) == ~lastSpecConsumesByte

ValidFormatOriginal(c) == c \in {Code["d"], Code["x"], Code["o"], Code["a"], Code["t"]}

\* specStart := hintPos
\* if hintPos >= len(hint) { hintPos = lastSpecStart; specStart = lastSpecStart }
SpecStartOriginal(exhausted, hintPos, lastSpecStart) ==
  IF exhausted THEN lastSpecStart ELSE hintPos

\* The head of one loop iteration of display_hint.go: implicit repetition, then the parse of one
\* spec.  status is "ok", "fail" (return "", false) or "panic" (an index out
\* of range).
ParseSpecOriginal(hint, hintPos0, lastSpecStart, lastSpecConsumesByte, w) ==
  LET exhausted  == hintPos0 >= Len(hint)
      specStart  == SpecStartOriginal(exhausted, hintPos0, lastSpecStart)
      starPrefix == specStart < Len(hint) /\ At(hint, specStart) = Code["*"]
      p1         == IF starPrefix THEN specStart + 1 ELSE specStart
      noDigits   == p1 >= Len(hint) \/ ~isDigit(At(hint, p1))
  IN Only({
    LET take       == digits.take
        p2         == digits.hintPos
        fmtChar    == At(hint, p2)
        p3         == p2 + 1
        hasSep     == p3 < Len(hint) /\ ~isDigit(At(hint, p3)) /\ At(hint, p3) # Code["*"]
        p4         == IF hasSep THEN p3 + 1 ELSE p3
        hasTerm    == starPrefix /\ p4 < Len(hint) /\ ~isDigit(At(hint, p4))
                      /\ At(hint, p4) # Code["*"]
        p5         == IF hasTerm THEN p4 + 1 ELSE p4
        status     ==
          IF exhausted /\ NoProgressOriginal(lastSpecConsumesByte) THEN "fail"
          ELSE IF noDigits THEN "fail"
          ELSE IF IsNegWord(take) THEN "fail"
          ELSE IF FormatCharMissingOriginal(hint, p2) THEN "fail"
          ELSE IF fmtChar = -1 THEN "panic"
          ELSE IF ~ValidFormatOriginal(fmtChar) THEN "fail"
          ELSE "ok"
    IN [status |-> status, specStart |-> specStart, hintPos |-> p5,
        starPrefix |-> starPrefix, take |-> take, fmtChar |-> fmtChar,
        hasSep |-> hasSep, sep |-> IF hasSep THEN At(hint, p3) ELSE 0,
        hasTerm |-> hasTerm, term |-> IF hasTerm THEN At(hint, p4) ELSE 0,
        consumes |-> (~IsNegWord(take) /\ ~IsZeroWord(take)) \/ starPrefix] :
    digits \in {TakeDigitsOriginal(hint, p1, ToWord(0, w))} })

\* end := dataPos + take
\* if end > len(data) || end < dataPos { end = len(data) }
ChunkEndOriginal(dataPos, take, dataLen) ==
  Only({ Only({ IF LessWord(lenW, end) \/ LessWord(end, posW) THEN lenW ELSE end :
                end \in {AddWord(posW, take, 0, 1)} }) :
         posW \in {ToWord(dataPos, Len(take))},
         lenW \in {ToWord(dataLen, Len(take))} })

\* the text of one chunk
FormatChunkOriginal(fmtChar, chunk) ==
  IF fmtChar = Code["d"] THEN FormatUint(chunk, 10)
  ELSE IF fmtChar = Code["x"]
       THEN Concat([i \in 1..Len(chunk) |->
                      <<hexDigits(chunk[i] \div 16), hexDigits(chunk[i] % 16)>>])
  ELSE IF fmtChar = Code["o"] THEN FormatUint(chunk, 8)
  ELSE chunk

\* if hasSep && dataPos < len(data) && (!hasTerm || r != repeatCount-1)
EmitSepOriginal(hasSep, moreData, hasTerm, r, repeatCount) ==
  hasSep /\ moreData /\ (~hasTerm \/ r # repeatCount - 1)

\* if hasTerm && dataPos < len(data)
EmitTermOriginal(hasTerm, dataPos, dataLen) == hasTerm /\ dataPos < dataLen

\* The body of the loop "for r := 0; r < repeatCount && dataPos < len(data);
\* r++", run once from the loop state ls when the loop's condition holds.
\* Every applied instance is noted in the log: the input it took (from, to)
\* and the length of the output before it (out0), after its chunk (out1) and
\* after its separator (out2).
ApplyOnceOriginal(data, spec, repeatCount, ls) ==
  IF ls.status # "ok" \/ ~(ls.r < repeatCount /\ ls.dataPos < Len(data))
  THEN ls
  ELSE Only({
    IF ~SliceInRange(ls.dataPos, endW, Len(data))
    THEN [ls EXCEPT !.status = "panic"]
    ELSE Only({
      LET end      == WordValue(endW, 1)
          moreData == end < Len(data)
          out      == IF EmitSepOriginal(spec.hasSep, moreData, spec.hasTerm, ls.r, repeatCount)
                      THEN Append(text, spec.sep)
                      ELSE text
          ev       == [kind |-> "chunk", at |-> spec.specStart,
                       star |-> spec.starPrefix, fmt |-> spec.fmtChar,
                       hasSep |-> spec.hasSep, sep |-> spec.sep,
                       hasTerm |-> spec.hasTerm, term |-> spec.term,
                       r |-> ls.r, n |-> repeatCount,
                       wrapped |-> SumWrapped(ls.dataPos, spec.take),
                       from |-> ls.dataPos, to |-> end,
                       out0 |-> Len(ls.result), out1 |-> Len(text), out2 |-> Len(out)]
      IN [status |-> "ok", r |-> ls.r + 1, dataPos |-> end, result |-> out,
          log |-> Append(ls.log, ev)] :
      text \in {Only({ ls.result \o FormatChunkOriginal(spec.fmtChar, chunk) :
                         chunk \in {Slice(data, ls.dataPos, WordValue(endW, 1))} })} }) :
    endW \in {ChunkEndOriginal(ls.dataPos, spec.take, Len(data))} })

RECURSIVE ApplyTimesOriginal(_, _, _, _, _)
\* n passes of the loop, one after the other (the first half, then the rest)
ApplyTimesOriginal(data, spec, repeatCount, ls, n) ==
  IF n = 0 \/ ls.status # "ok" THEN ls
  ELSE IF n = 1 THEN ApplyOnceOriginal(data, spec, repeatCount, ls)
  ELSE Only({ Only({ ApplyTimesOriginal(data, spec, repeatCount, half, rest) :
                      half \in {ApplyTimesOriginal(data, spec, repeatCount, ls, first)} }) :
               first \in {n \div 2}, rest \in {n - (n \div 2)} })

\* the whole loop: it runs at most repeatCount times
ApplyLoopOriginal(data, spec, repeatCount, dataPos, result, log) ==
  Only({ ApplyTimesOriginal(data, spec, repeatCount, ls, repeatCount) :
         ls \in {[status |-> "ok", r |-> 0, dataPos |-> dataPos, result |-> result,
                  log |-> log]} })

\* repeatCount = int(data[dataPos]); dataPos++
AfterCountOriginal(readCount, dataPos) == IF readCount THEN dataPos + 1 ELSE dataPos

\* The rest of an iteration once its spec is parsed: read the repeat count,
\* apply the spec, emit the terminator.  A group entry in the log closes the
\* iteration: r is the number of instances applied, out1 and out2 the output
\* length before and after the terminator.
ApplySpecOriginal(data, st, spec) ==
  LET readCount == spec.starPrefix /\ st.dataPos < Len(data)
  IN Only({ Only({
       LET out == IF EmitTermOriginal(spec.hasTerm, loop.dataPos, Len(data))
                  THEN Append(loop.result, spec.term)
                  ELSE loop.result
           ev  == [kind |-> "group", at |-> spec.specStart,
                   star |-> spec.starPrefix, fmt |-> spec.fmtChar,
                   hasSep |-> spec.hasSep, sep |-> spec.sep,
                   hasTerm |-> spec.hasTerm, term |-> spec.term,
                   r |-> Len(loop.log) - Len(st.log), n |-> repeatCount,
                   wrapped |-> FALSE,
                   from |-> st.dataPos, to |-> loop.dataPos,
                   out0 |-> Len(st.result), out1 |-> Len(loop.result),
                   out2 |-> Len(out)]
       IN [status |-> loop.status, hintPos |-> spec.hintPos, dataPos |-> loop.dataPos,
           lastSpecStart |-> spec.specStart, lastSpecConsumesByte |-> spec.consumes,
           result |-> out, log |-> Append(loop.log, ev)] :
       loop \in {ApplyLoopOriginal(data, spec, repeatCount, dataPos1, st.result, st.log)} }) :
     repeatCount \in {IF readCount THEN At(data, st.dataPos) ELSE 1},
     dataPos1    \in {AfterCountOriginal(readCount, st.dataPos)} })

\* One iteration of the loop "for dataPos < len(data)" of display_hint.go.
\* st holds the loop's variables.
IterationOriginal(hint, data, st, w) ==
  Only({ IF spec.status # "ok" THEN [st EXCEPT !.status = spec.status]
         ELSE ApplySpecOriginal(data, st, spec) :
         spec \in {ParseSpecOriginal(hint, st.hintPos, st.lastSpecStart,
                             st.lastSpecConsumesByte, w)} })

(***************************************************************************)
(* The three loops run from the first iteration to the return.  The        *)
(* outcome is the returned (text, ok), or a panic.                         *)
(***************************************************************************)
\* hintPos := 0; dataPos := 0; lastSpecStart := 0; lastSpecConsumesByte := false
FirstState ==
  [status |-> "ok", hintPos |-> 0, dataPos |-> 0, lastSpecStart |-> 0,
   lastSpecConsumesByte |-> FALSE, result |-> <<>>, log |-> <<>>]

\* return "", false
Failure == [text |-> <<>>, ok |-> FALSE, panic |-> FALSE]

\* what a loop leaves when it stops in the state st
Outcome(st) ==
  IF st.status = "ok" THEN [text |-> st.result, ok |-> TRUE, panic |-> FALSE]
  ELSE IF st.status = "fail" THEN Failure
  ELSE [text |-> <<>>, ok |-> FALSE, panic |-> TRUE]

RECURSIVE RunSmall(_, _, _, _)
\* the stack-buffer loop of applyDisplayHint: for dataPos < len(data) { ... }
RunSmall(hint, data, st, w) ==
  IF st.status # "ok" \/ ~(st.dataPos < Len(data)) THEN Outcome(st)
  ELSE Only({ RunSmall(hint, data, next, w) : next \in {Iteration(hint, data, st, w)} })

RECURSIVE RunLarge(_, _, _, _)
\* applyDisplayHintLarge: for dataPos < len(data) { ... }
RunLarge(hint, data, st, w) ==
  IF st.status # "ok" \/ ~(st.dataPos < Len(data)) THEN Outcome(st)
  ELSE Only({ RunLarge(hint, data, next, w) : next \in {IterationLarge(hint, data, st, w)} })

RECURSIVE RunOriginal(_, _, _, _)
\* the loop of display_hint.go: for dataPos < len(data) { ... }
RunOriginal(hint, data, st, w) ==
  IF st.status # "ok" \/ ~(st.dataPos < Len(data)) THEN Outcome(st)
  ELSE Only({ RunOriginal(hint, data, next, w) :
              next \in {IterationOriginal(hint, data, st, w)} })

\* applyDisplayHint of display_hint.go
applyDisplayHintOriginal(hint, data, w) ==
  IF hint = <<>> \/ Len(data) = 0 THEN Failure
  ELSE RunOriginal(hint, data, FirstState, w)

(***************************************************************************)
(* Inputs                                                                  *)
(***************************************************************************)
\* sub-identifiers drawn for OIDs: zero, one digit, several digits
OidValues == {0, 7, 10, 65535}

OidInputs == SeqsUpTo(OidValues, MaxOidLen)

\* texts handed to ToList directly
StrInputs ==
  { <<>>, Str(<<"1", ".", "3">>), Str(<<".", "1">>), Str(<<"1", ".">>),
    Str(<<"1", ".", ".", "3">>), Str(<<"1", ".", "q">>), Str(<<"-", "2", ".", "+", "3">>) }

\* fragments of DISPLAY-HINT strings: well-formed specs, pieces that leave a
\* spec malformed, and octet-lengths at 2^31 - 1, 2^63 - 1, 2^63 and 2^64 + 1
HintFragments ==
  { Str(<<"1", "d", ".">>), Str(<<"2", "a">>), Str(<<"1", "t">>),
    Str(<<"*", "1", "x", ":", "/">>),
    Str(<<"*", "0", "d", ".">>), Str(<<"*", "0", "x", "-">>), Str(<<"0", "d">>),
    Str(<<"q">>), Str(<<"1">>), Str(<<"*">>),
    Str(<<"2", "1", "4", "7", "4", "8", "3", "6", "4", "7", "x">>),
    Str(<<"9", "2", "2", "3", "3", "7", "2", "0", "3", "6", "8", "5", "4", "7", "7",
          "5", "8", "0", "7", "x">>),
    Str(<<"9", "2", "2", "3", "3", "7", "2", "0", "3", "6", "8", "5", "4", "7", "7",
          "5", "8", "0", "8", "d">>),
    Str(<<"1", "8", "4", "4", "6", "7", "4", "4", "0", "7", "3", "7", "0", "9", "5",
          "5", "1", "6", "1", "7", "o">>) }

\* the hints: at most MaxSpecs fragments, one after the other
HintInputs == {Concat(fs) : fs \in SeqsUpTo(HintFragments, MaxSpecs)}

\* byte values drawn for the short data: as repeat counts, none, two and more
\* than a short input holds; the long data add the bytes 1 and 255
DataBytes == {0, 2, 9}

\* a byte string of length n that cycles through 2, 255, 0, 1
Cycle(n) == [i \in 1..n |-> <<2, 255, 0, 1>>[((i - 1) % 4) + 1]]

\* lengths at which estimateOutputSize exceeds smallBufferSize for the
\* formats d and o (16) and x (22)
LongData == {Cycle(16), Cycle(22)}

DataInputs == SeqsUpTo(DataBytes, MaxDataLen) \cup LongData

\* whether h holds a run of at least n digits
HasDigitRun(h, n) ==
  \E i \in 1..(Len(h) - n + 1) : \A j \in i..(i + n - 1) : isDigit(h[j])

\* The widths of int, in bytes, of the builds of the program.  An
\* octet-length of fewer than ten digits is below 2^31 and every sum with it
\* stays below 2^32, so both builds compute the same: the 32-bit build is
\* drawn for the hints where the two can differ.
IntWidths(h) == IF HasDigitRun(h, 10) THEN {4, 8} ELSE {8}

(***************************************************************************)
(* Node and Node.Copy.  A pointer is an address into the heap, 0 is nil.   *)
(* The heap holds the Node structs, the backing arrays of the []*Node and  *)
(* []string slices, and the maps; a slice is an array with a length, the   *)
(* capacity is the length of the array.                                    *)
(***************************************************************************)
EmptyHeap == [nodes |-> <<>>, ptrs |-> <<>>, strs |-> <<>>, maps |-> <<>>]

NilSlice == [arr |-> 0, len |-> 0]

\* the elements of a slice over the arrays of one kind
SliceElems(arrays, s) == IF s.arr = 0 THEN <<>> ELSE SubSeq(arrays[s.arr], 1, s.len)

\* the capacity append leaves to a slice grown one element at a time
RECURSIVE GrowCap(_, _)
GrowCap(n, c) == IF c >= n THEN c ELSE GrowCap(n, IF c = 0 THEN 1 ELSE 2 * c)

\* elems followed by the zero values up to the capacity
Padded(elems, cap, zero) == [i \in 1..cap |-> IF i <= Len(elems) THEN elems[i] ELSE zero]

\* a computeFixedSize that takes the lower end of any single range
computeFixedSizeAnyRange(sizes) ==
  IF Len(sizes) # 1 THEN 0 ELSE sizes[1].Min

\* computeFixedSize: 0 unless there is exactly one size range with Min = Max.
\* The sizes of the inputs are below 2^31, where int(sizes[0].Min) is the
\* same number in the 32-bit and the 64-bit build.
computeFixedSize(sizes) ==
  IF Len(sizes) # 1 THEN 0
  ELSE IF sizes[1].Min # sizes[1].Max THEN 0
  ELSE sizes[1].Min

RECURSIVE SortedInsert(_, _, _)
\* ptrs with the pointer p put before the first node of a greater subid
SortedInsert(nodes, ptrs, p) ==
  IF ptrs = <<>> THEN <<p>>
  ELSE IF nodes[p].subid < nodes[Head(ptrs)].subid THEN <<p>> \o ptrs
  ELSE <<Head(ptrs)>> \o SortedInsert(nodes, Tail(ptrs), p)

\* the children left in the order of the source
SortSliceSourceOrder(nodes, ptrs, k) == SubSeq(ptrs, 1, k)

RECURSIVE SortSlice(_, _, _)
\* sort.Slice(n.Children, func(i, j) { Children[i].subid < Children[j].subid })
\* on the first k pointers: sibling sub-identifiers are distinct, so the
\* order it leaves is the only sorted one
SortSlice(nodes, ptrs, k) ==
  IF k = 0 THEN <<>>
  ELSE Only({ SortedInsert(nodes, sorted, ptrs[k]) : sorted \in {SortSlice(nodes, ptrs, k - 1)} })

RECURSIVE buildNodeFromGomib(_, _)
RECURSIVE buildChildren(_, _, _, _)
\* for _, child := range children { n.Children = append(n.Children, buildNodeFromGomib(child)) }
buildChildren(h, children, i, arr) ==
  IF i > Len(children) THEN h
  ELSE Only({ buildChildren([b.h EXCEPT !.ptrs[arr][i] = b.ret], children, i + 1, arr) :
              b \in {buildNodeFromGomib(h, children[i])} })

\* buildNodeFromGomib: EnumValues is made and filled, Indexes grows by append
\* from nil, Children is made with the capacity of its length
buildNodeFromGomib(h, gn) ==
  LET ma == Len(h.maps) + 1
      sa == Len(h.strs) + 1
      pa == Len(h.ptrs) + 1
      h1 == [h EXCEPT
               !.maps = Append(@, gn.EnumValues),
               !.strs = IF gn.Indexes = <<>> THEN @
                        ELSE Append(@, Padded(gn.Indexes, GrowCap(Len(gn.Indexes), 0), "")),
               !.ptrs = Append(@, [i \in 1..Len(gn.Children) |-> 0])]
      node == [subid |-> gn.Arc, Label |-> gn.Label,
               FixedSize |-> computeFixedSize(gn.Sizes),
               Children |-> [arr |-> pa, len |-> Len(gn.Children)],
               EnumValues |-> ma,
               Indexes |-> IF gn.Indexes = <<>> THEN NilSlice
                           ELSE [arr |-> sa, len |-> Len(gn.Indexes)]]
  IN Only({ [h |-> [hk EXCEPT !.ptrs[pa] = SortSlice(hk.nodes, @, Len(@)),
                               !.nodes = Append(@, node)],
             ret |-> Len(hk.nodes) + 1] :
            hk \in {buildChildren(h1, gn.Children, 1, pa)} })

\* a copy that keeps the Indexes slice of newNode := *n
CopyIndexesShared(h, src) == [h |-> h, slice |-> src]

\* newNode.Indexes = make([]string, len(n.Indexes)); copy(newNode.Indexes, n.Indexes)
CopyIndexes(h, src) ==
  [h |-> [h EXCEPT !.strs = Append(@, SliceElems(h.strs, src))],
   slice |-> [arr |-> Len(h.strs) + 1, len |-> src.len]]

\* for k, v := range n.EnumValues { newNode.EnumValues[k] = v }
CopyEnumValues(h, src, dst) ==
  IF src = 0 THEN h ELSE [h EXCEPT !.maps[dst] = h.maps[src] @@ @]

RECURSIVE Copy(_, _)
RECURSIVE CopyChildren(_, _, _, _)
\* for _, child := range n.Children { newNode.Children = append(newNode.Children, child.Copy()) }
CopyChildren(h, src, i, dst) ==
  IF i > src.len THEN h
  ELSE Only({ CopyChildren([c.h EXCEPT !.ptrs[dst][i] = c.ret], src, i + 1, dst) :
              c \in {Copy(h, h.ptrs[src.arr][i])} })

\* Node.Copy: the struct is copied, Children, EnumValues and Indexes are made
\* anew and filled; the result is the new heap and the address of newNode
Copy(h, n) ==
  LET src == h.nodes[n]
      pa  == Len(h.ptrs) + 1
      ma  == Len(h.maps) + 1
      h1  == [h EXCEPT !.ptrs = Append(@, [i \in 1..src.Children.len |-> 0]),
                       !.maps = Append(@, <<>>)]
  IN Only({ Only({ Only({ [h |-> [he EXCEPT !.nodes = Append(@,
                                     [src EXCEPT !.Children = [arr |-> pa, len |-> src.Children.len],
                                                 !.EnumValues = ma,
                                                 !.Indexes = ix.slice])],
                           ret |-> Len(he.nodes) + 1] :
                          he \in {CopyEnumValues(hc, src.EnumValues, ma)} }) :
                   hc \in {CopyChildren(ix.h, src.Children, 1, pa)} }) :
            ix \in {CopyIndexes(h1, src.Indexes)} })

RECURSIVE Value(_, _)
\* what can be read through the pointer n: the fields, the Indexes sequence,
\* the EnumValues mapping and the values of the children in order
Value(h, n) ==
  LET node == h.nodes[n]
      kids == SliceElems(h.ptrs, node.Children)
  IN [subid |-> node.subid, Label |-> node.Label, FixedSize |-> node.FixedSize,
      Children |-> [i \in 1..Len(kids) |-> Value(h, kids[i])],
      EnumValues |-> IF node.EnumValues = 0 THEN <<>> ELSE h.maps[node.EnumValues],
      Indexes |-> SliceElems(h.strs, node.Indexes)]

RECURSIVE Reach(_, _)
\* the nodes that can be reached through the pointer n
Reach(h, n) ==
  LET kids == SliceElems(h.ptrs, h.nodes[n].Children)
  IN {n} \cup UNION {Reach(h, kids[i]) : i \in 1..Len(kids)}

\* node.Label = v
SetLabel(h, n, v) == [h EXCEPT !.nodes[n].Label = v]

\* node.EnumValues[k] = v
SetEnumValue(h, n, k, v) ==
  [h EXCEPT !.maps[h.nodes[n].EnumValues] = (k :> v) @@ @]

\* delete(node.EnumValues, k)
DeleteEnumValue(h, n, k) ==
  IF h.nodes[n].EnumValues = 0 THEN h
  ELSE [h EXCEPT !.maps[h.nodes[n].EnumValues] = [x \in (DOMAIN @) \ {k} |-> @[x]]]

\* node.Indexes[i] = v (i 0-based)
SetIndex(h, n, i, v) == [h EXCEPT !.strs[h.nodes[n].Indexes.arr][i + 1] = v]

\* node.Children = append(node.Children, c): in place while the capacity
\* lasts, into a new array of twice the capacity otherwise
AppendChild(h, n, c) ==
  LET s   == h.nodes[n].Children
      cap == IF s.arr = 0 THEN 0 ELSE Len(h.ptrs[s.arr])
  IN IF s.len < cap
     THEN [h EXCEPT !.ptrs[s.arr][s.len + 1] = c, !.nodes[n].Children.len = s.len + 1]
     ELSE [h EXCEPT !.ptrs = Append(@, Padded(Append(SliceElems(h.ptrs, s), c),
                                              GrowCap(s.len + 1, cap), 0)),
                    !.nodes[n].Children = [arr |-> Len(h.ptrs) + 1, len |-> s.len + 1]]

\* node.Children = append(node.Children[:i], node.Children[i+1:]...) (i 0-based):
\* the later children move down one place in the same array
RemoveChild(h, n, i) ==
  LET s == h.nodes[n].Children
  IN [h EXCEPT !.ptrs[s.arr] = [j \in 1..Len(@) |->
                                  IF j > i /\ j < s.len THEN @[j + 1] ELSE @[j]],
               !.nodes[n].Children.len = s.len - 1]

\* the nodes of the MIB that buildNodeFromGomib is given: a leaf without
\* size ranges, enums or indexes, and a leaf with one range 6..6
Leaves(arc) ==
  { [Arc |-> arc, Label |-> "a", Sizes |-> <<>>, Children |-> <<>>,
     EnumValues |-> <<>>, Indexes |-> <<>>],
    [Arc |-> arc, Label |-> "b", Sizes |-> <<[Min |-> 6, Max |-> 6]>>, Children |-> <<>>,
     EnumValues |-> (1 :> "up"), Indexes |-> <<"i", "j", "k">>] }

LeafInputs == Leaves(1)

\* the sub-identifiers of two siblings, in either order
ArcPairs == {<<1, 2>>, <<2, 1>>}

\* trees of depth up to 2; the sub-identifiers of siblings are distinct and
\* come in any order
TreeInputs ==
  LeafInputs
  \cup UNION { { [Arc |-> 1, Label |-> "t", Sizes |-> <<[Min |-> 4, Max |-> 6]>>,
                  Children |-> <<c1, c2>>,
                  EnumValues |-> (2 :> "down"), Indexes |-> <<"i">>] :
                 c1 \in Leaves(a[1]), c2 \in Leaves(a[2]) } :
               a \in ArcPairs }
  \cup { [Arc |-> 1, Label |-> "r",
          Sizes |-> <<[Min |-> 6, Max |-> 6], [Min |-> 8, Max |-> 8]>>,
          Children |-> <<[Arc |-> 3, Label |-> "t", Sizes |-> <<>>, Children |-> <<c>>,
                          EnumValues |-> <<>>, Indexes |-> <<>>]>>,
          EnumValues |-> <<>>, Indexes |-> <<>>] :
         c \in LeafInputs }

\* a node that is added to a tree later
NewLeaf == [Arc |-> 9, Label |-> "n", Sizes |-> <<>>, Children |-> <<>>,
            EnumValues |-> <<>>, Indexes |-> <<>>]

(***************************************************************************)
(* loadedMib, initMIB and getMIBTree.  loadedMib is <<>> while it is nil   *)
(* and <<root>> once a MIB is loaded, root being the node Root() returns.  *)
(***************************************************************************)
\* &Node{EnumValues: make(map[int]string)} with its map at address ma
ZeroNode(ma) ==
  [subid |-> 0, Label |-> "", FixedSize |-> 0, Children |-> NilSlice,
   EnumValues |-> ma, Indexes |-> NilSlice]

\* a search that takes the first top-level child whatever its subid
FindIsoFirst(h, ptrs, i, head) == IF i > Len(ptrs) THEN head ELSE ptrs[i]

RECURSIVE FindIso(_, _, _, _)
\* for _, child := range head.Children { if child.subid == 1 { return child } }
\* return head
FindIso(h, ptrs, i, head) ==
  IF i > Len(ptrs) THEN head
  ELSE IF h.nodes[ptrs[i]].subid = 1 THEN ptrs[i]
  ELSE FindIso(h, ptrs, i + 1, head)

\* getMIBTree for the value mib of loadedMib: the heap it builds and the
\* pointer it returns
getMIBTree(mib) ==
  IF mib = <<>>
  THEN [h |-> [EmptyHeap EXCEPT !.maps = << <<>> >>, !.nodes = <<ZeroNode(1)>>], ret |-> 1]
  ELSE LET children == mib[1].Children
           h1 == [EmptyHeap EXCEPT !.maps = << <<>> >>,
                                   !.ptrs = <<[i \in 1..Len(children) |-> 0]>>]
       IN Only({ Only({ [h |-> hs, ret |-> FindIso(hs, hs.ptrs[1], 1, Len(hs.nodes))] :
                        hs \in {[hk EXCEPT
                                   !.ptrs[1] = SortSlice(hk.nodes, @, Len(@)),
                                   !.nodes = Append(@, [ZeroNode(1) EXCEPT
                                                !.Children = [arr |-> 1, len |-> Len(children)]])]} }) :
                 hk \in {buildChildren(h1, children, 1, 1)} })

DefaultMibsDir == "/usr/share/snmp/mibs"

\* strings.Split(getMibsDir(paths), ":") for paths without a colon: the
\* default directory for [""], one empty name for no path at all
getMibsDir(paths) ==
  IF paths = <<"">> THEN <<DefaultMibsDir>>
  ELSE IF paths = <<>> THEN <<"">>
  ELSE paths

\* strings.TrimSpace on the names the inputs use
TrimSpace(dir) == IF dir = " " THEN "" ELSE dir

\* the directories initMIB makes sources of: not empty once trimmed, and
\* gomib.DirTree opens them
Sources(dirs, opens) ==
  SelectSeq(dirs, LAMBDA dir : TrimSpace(dir) # "" /\ TrimSpace(dir) \in opens)

\* an initMIB that stores what gomib.Load returned before it looks at err
LoadedAfterUnchecked(old, sources, load) ==
  IF Len(sources) = 0 THEN old ELSE load.mib

\* loadedMib after initMIB: written only when there is a source and
\* gomib.Load returned no error
LoadedAfter(old, sources, load) ==
  IF Len(sources) = 0 THEN old
  ELSE IF load.err THEN old
  ELSE load.mib

\* the (_, error) of initMIB is not nil
InitMIBFails(sources, load) == Len(sources) = 0 \/ load.err

\* the values of the -mibs-dir flag, and the directories that can be opened
PathInputs == {<<>>, <<"">>, <<" ">>, <<"m">>, <<"x", "m">>}

DirNames == {DefaultMibsDir, "m"}

WithArc(gn, arc) == [gn EXCEPT !.Arc = arc]

\* the node without an arc above the top-level nodes
Root(children) ==
  [Arc |-> 0, Label |-> "", Sizes |-> <<>>, Children |-> children,
   EnumValues |-> <<>>, Indexes |-> <<>>]

\* an iso subtree with every kind of size range in it
MixedTree ==
  [Arc |-> 1, Label |-> "iso",
   Sizes |-> <<[Min |-> 6, Max |-> 6], [Min |-> 8, Max |-> 8]>>,
   Children |-> <<[Arc |-> 3, Label |-> "t", Sizes |-> <<[Min |-> 4, Max |-> 6]>>,
                   Children |-> <<CHOOSE l \in Leaves(2) : l.Label = "b",
                                  CHOOSE l \in Leaves(1) : l.Label = "a">>,
                   EnumValues |-> <<>>, Indexes |-> <<>>]>>,
   EnumValues |-> <<>>, Indexes |-> <<>>]

\* loaded MIBs: empty, iso alone, iso after a larger sibling, iso between
\* ccitt(0) and joint-iso-ccitt(2), and without iso
Mibs ==
  {Root(<<>>), Root(<<MixedTree>>)}
  \cup {Root(<<WithArc(u, 2), t, WithArc(l, 0)>>) :
          u \in LeafInputs, t \in LeafInputs, l \in LeafInputs}
  \cup {Root(<<t>>) : t \in TreeInputs}
  \cup {Root(<<WithArc(u, 2), t>>) : u \in TreeInputs, t \in LeafInputs}
  \cup {Root(<<WithArc(u, 2), WithArc(l, 0)>>) : u \in LeafInputs, l \in LeafInputs}
  \cup {Root(<<WithArc(u, 3)>>) : u \in LeafInputs}

\* what gomib.Load can return: a MIB, an error, or an error with a MIB
LoadResults ==
  {[err |-> FALSE, mib |-> <<m>>] : m \in Mibs}
  \cup {[err |-> TRUE, mib |-> <<>>]}
  \cup {[err |-> TRUE, mib |-> <<m>>] : m \in Mibs}

(***************************************************************************)
(* State                                                                   *)
(***************************************************************************)
VARIABLES
  hint, data,              \* the arguments of applyDisplayHint
  intBytes,                \* the width of int in this build
  pc,                      \* "idle", "call", "small", "large", "done", "panic"
  hintPos, dataPos,        \* the loop's cursors
  lastSpecStart, lastSpecConsumesByte,
  result, ok,              \* the returned (text, ok) once pc = "done"
  log,                     \* the instances and groups applied so far
  oid, count, str,         \* the arguments of the OID utilities
  opc,                     \* "idle", "start", "formatted", "roundtrip", "parsed", "split"
  head, tail, list,        \* their results
  heap,                    \* the Node structs, arrays and maps
  orig, copy,              \* the node Copy is called on and the node it returned
  npc,                     \* "idle", "start", "copied"
  edits,                   \* the changes made since Copy returned
  origVal, copyVal,        \* what was last read or written through orig and copy
  loadedMib,               \* the package-level variable
  lastLoad,                \* what the last gomib.Load without error returned
  mibErr,                  \* the last initMIB returned an error
  lastCall,                \* "none", "initMIB", "getMIBTree", "Copy"
  calls,                   \* the calls made so far
  mheap, mtree, mcopy      \* the tree getMIBTree returned and its Copy

hintVars == <<hint, data, intBytes, pc, hintPos, dataPos, lastSpecStart,
              lastSpecConsumesByte, result, ok, log>>
oidVars  == <<oid, count, str, opc, head, tail, list>>
nodeVars == <<heap, orig, copy, npc, edits, origVal, copyVal>>
mibVars  == <<loadedMib, lastLoad, mibErr, lastCall, calls, mheap, mtree, mcopy>>
vars     == <<hint, data, intBytes, pc, hintPos, dataPos, lastSpecStart,
              lastSpecConsumesByte, result, ok, log,
              oid, count, str, opc, head, tail, list,
              heap, orig, copy, npc, edits, origVal, copyVal,
              loadedMib, lastLoad, mibErr, lastCall, calls, mheap, mtree, mcopy>>

HintIdle ==
  /\ hint = <<>> /\ data = <<>> /\ intBytes = 8 /\ pc = "idle"
  /\ hintPos = 0 /\ dataPos = 0 /\ lastSpecStart = 0 /\ lastSpecConsumesByte = FALSE
  /\ result = <<>> /\ ok = FALSE /\ log = <<>>

OidIdle ==
  /\ oid = <<>> /\ count = 0 /\ str = <<>> /\ opc = "idle"
  /\ head = <<>> /\ tail = <<>> /\ list = <<>>

NodeIdle ==
  /\ heap = EmptyHeap /\ orig = 0 /\ copy = 0 /\ npc = "idle"
  /\ edits = 0 /\ origVal = <<>> /\ copyVal = <<>>

MibIdle ==
  /\ loadedMib = <<>> /\ lastLoad = <<>> /\ mibErr = FALSE /\ lastCall = "none"
  /\ calls = 0 /\ mheap = EmptyHeap /\ mtree = 0 /\ mcopy = 0

\* a call of applyDisplayHint(hint, data) is about to run
Init ==
  /\ hint \in HintInputs /\ data \in DataInputs /\ intBytes \in IntWidths(hint)
  /\ pc = "call"
  /\ hintPos = 0 /\ dataPos = 0 /\ lastSpecStart = 0 /\ lastSpecConsumesByte = FALSE
  /\ result = <<>> /\ ok = FALSE /\ log = <<>>
  /\ OidIdle
  /\ NodeIdle
  /\ MibIdle

\* calls of the OID utilities are about to run
InitOid ==
  /\ oid \in OidInputs /\ count \in 0..MaxCount /\ str \in StrInputs
  /\ opc = "start"
  /\ head = <<>> /\ tail = <<>> /\ list = <<>>
  /\ HintIdle
  /\ NodeIdle
  /\ MibIdle

(***************************************************************************)
(* applyDisplayHint                                                        *)
(***************************************************************************)
\* an entry check that wants both arguments empty
EmptyArgumentBoth(h, d) == h = <<>> /\ Len(d) = 0

\* if hint == "" || len(data) == 0 { return "", false }
EmptyArgument(h, d) == h = <<>> \/ Len(d) = 0

\* the entry of applyDisplayHint: the empty check, then the choice of the
\* stack-buffer loop or applyDisplayHintLarge by the estimated size
Start ==
  /\ pc = "call"
  /\ IF EmptyArgument(hint, data)
     THEN pc' = "done" /\ ok' = FALSE
     ELSE /\ pc' = IF estimateOutputSize(hint, Len(data)) > smallBufferSize
                   THEN "large" ELSE "small"
          /\ ok' = ok
  /\ UNCHANGED <<hint, data, intBytes, hintPos, dataPos, lastSpecStart,
                 lastSpecConsumesByte, result, log>>
  /\ UNCHANGED oidVars
  /\ UNCHANGED nodeVars
  /\ UNCHANGED mibVars

LoopState ==
  [status |-> "ok", hintPos |-> hintPos, dataPos |-> dataPos,
   lastSpecStart |-> lastSpecStart, lastSpecConsumesByte |-> lastSpecConsumesByte,
   result |-> result, log |-> log]

\* a text that keeps what was formatted before the error
ReturnTextPartial(status, text) == text

\* the text after an iteration: the buffer while the loop goes on, "" of
\* return "", false
ReturnText(status, text) == IF status = "ok" THEN text ELSE <<>>

\* what an iteration leaves: the loop goes on, or the call returns "", false,
\* or an index is out of range
Continue(next) ==
  /\ pc' = IF next.status = "ok" THEN pc
           ELSE IF next.status = "fail" THEN "done" ELSE "panic"
  /\ ok' = FALSE
  /\ result' = ReturnText(next.status, next.result)
  /\ hintPos' = next.hintPos
  /\ dataPos' = next.dataPos
  /\ lastSpecStart' = next.lastSpecStart
  /\ lastSpecConsumesByte' = next.lastSpecConsumesByte
  /\ log' = next.log
  /\ UNCHANGED <<hint, data, intBytes>>
  /\ UNCHANGED oidVars
  /\ UNCHANGED nodeVars
  /\ UNCHANGED mibVars

\* one iteration of the stack-buffer loop
SmallIter ==
  /\ pc = "small"
  /\ dataPos < Len(data)
  /\ \E st \in {LoopState} : \E next \in {Iteration(hint, data, st, intBytes)} : Continue(next)

\* return string(result), true
SmallReturn ==
  /\ pc = "small"
  /\ ~(dataPos < Len(data))
  /\ pc' = "done" /\ ok' = TRUE
  /\ UNCHANGED <<hint, data, intBytes, hintPos, dataPos, lastSpecStart,
                 lastSpecConsumesByte, result, log>>
  /\ UNCHANGED oidVars
  /\ UNCHANGED nodeVars
  /\ UNCHANGED mibVars

\* one iteration of the loop of applyDisplayHintLarge
LargeIter ==
  /\ pc = "large"
  /\ dataPos < Len(data)
  /\ \E st \in {LoopState} : \E next \in {IterationLarge(hint, data, st, intBytes)} : Continue(next)

\* return result.String(), true
LargeReturn ==
  /\ pc = "large"
  /\ ~(dataPos < Len(data))
  /\ pc' = "done" /\ ok' = TRUE
  /\ UNCHANGED <<hint, data, intBytes, hintPos, dataPos, lastSpecStart,
                 lastSpecConsumesByte, result, log>>
  /\ UNCHANGED oidVars
  /\ UNCHANGED nodeVars
  /\ UNCHANGED mibVars

Next == Start \/ SmallIter \/ SmallReturn \/ LargeIter \/ LargeReturn

Spec == Init /\ [][Next]_vars

\* the call runs to its end: no step of it waits on anything
FairSpec == Init /\ [][Next]_vars /\ WF_vars(Next)

(***************************************************************************)
(* Calls of the OID utilities                                              *)
(***************************************************************************)
CallFromList ==
  /\ opc = "start"
  /\ str' = FromList(oid)
  /\ opc' = "formatted"
  /\ UNCHANGED <<oid, count, head, tail, list>>
  /\ UNCHANGED hintVars
  /\ UNCHANGED nodeVars
  /\ UNCHANGED mibVars

\* ToList of the text FromList returned
CallToListBack ==
  /\ opc = "formatted"
  /\ list' = ToList(str)
  /\ opc' = "roundtrip"
  /\ UNCHANGED <<oid, count, str, head, tail>>
  /\ UNCHANGED hintVars
  /\ UNCHANGED nodeVars
  /\ UNCHANGED mibVars

\* ToList of a text from elsewhere
CallToList ==
  /\ opc = "start"
  /\ list' = ToList(str)
  /\ opc' = "parsed"
  /\ UNCHANGED <<oid, count, str, head, tail>>
  /\ UNCHANGED hintVars
  /\ UNCHANGED nodeVars
  /\ UNCHANGED mibVars

CallSplit ==
  /\ opc = "start"
  /\ head' = Split(oid, count).head
  /\ tail' = Split(oid, count).tail
  /\ opc' = "split"
  /\ UNCHANGED <<oid, count, str, list>>
  /\ UNCHANGED hintVars
  /\ UNCHANGED nodeVars
  /\ UNCHANGED mibVars

NextOid == CallFromList \/ CallToListBack \/ CallToList \/ CallSplit

SpecOid == InitOid /\ [][NextOid]_vars

(***************************************************************************)
(* Node.Copy and the changes made to the two trees afterwards              *)
(***************************************************************************)
\* a tree built by buildNodeFromGomib, Copy about to be called on its root
InitNode ==
  /\ \E gn \in TreeInputs : \E b \in {buildNodeFromGomib(EmptyHeap, gn)} :
       /\ heap = b.h /\ orig = b.ret /\ origVal = Value(b.h, b.ret)
  /\ copy = 0 /\ npc = "start" /\ edits = 0 /\ copyVal = <<>>
  /\ HintIdle
  /\ OidIdle
  /\ MibIdle

\* copy := orig.Copy()
CallCopy ==
  /\ npc = "start"
  /\ \E c \in {Copy(heap, orig)} :
       /\ heap' = c.h /\ copy' = c.ret /\ copyVal' = Value(c.h, c.ret)
  /\ npc' = "copied"
  /\ UNCHANGED <<orig, edits, origVal>>
  /\ UNCHANGED hintVars
  /\ UNCHANGED oidVars
  /\ UNCHANGED mibVars

\* the pointer a change is made through
Through(side) == IF side = "orig" THEN orig ELSE copy

Sides == {"orig", "copy"}

\* a change made through one of the two pointers leaves the heap h
Edited(side, h) ==
  /\ heap' = h
  /\ edits' = edits + 1
  /\ origVal' = IF side = "orig" THEN Value(h, orig) ELSE origVal
  /\ copyVal' = IF side = "copy" THEN Value(h, copy) ELSE copyVal
  /\ UNCHANGED <<orig, copy, npc>>
  /\ UNCHANGED hintVars
  /\ UNCHANGED oidVars
  /\ UNCHANGED mibVars

CanEdit == npc = "copied" /\ edits < MaxEdits

EditLabel ==
  /\ CanEdit
  /\ \E side \in Sides : \E n \in Reach(heap, Through(side)) :
       Edited(side, SetLabel(heap, n, "z"))

EditEnumValue ==
  /\ CanEdit
  /\ \E side \in Sides : \E n \in Reach(heap, Through(side)) : \E k \in {1, 3} :
       /\ heap.nodes[n].EnumValues # 0
       /\ Edited(side, SetEnumValue(heap, n, k, "z"))

EditDeleteEnumValue ==
  /\ CanEdit
  /\ \E side \in Sides : \E n \in Reach(heap, Through(side)) :
       Edited(side, DeleteEnumValue(heap, n, 1))

EditIndex ==
  /\ CanEdit
  /\ \E side \in Sides : \E n \in Reach(heap, Through(side)) :
       \E i \in 0..(heap.nodes[n].Indexes.len - 1) :
         Edited(side, SetIndex(heap, n, i, "z"))

EditAppendChild ==
  /\ CanEdit
  /\ \E side \in Sides : \E n \in Reach(heap, Through(side)) :
       \E b \in {buildNodeFromGomib(heap, NewLeaf)} :
         Edited(side, AppendChild(b.h, n, b.ret))

EditRemoveChild ==
  /\ CanEdit
  /\ \E side \in Sides : \E n \in Reach(heap, Through(side)) :
       \E i \in 0..(heap.nodes[n].Children.len - 1) :
         Edited(side, RemoveChild(heap, n, i))

NextNode ==
  \/ CallCopy \/ EditLabel \/ EditEnumValue \/ EditDeleteEnumValue
  \/ EditIndex \/ EditAppendChild \/ EditRemoveChild

SpecNode == InitNode /\ [][NextNode]_vars

(***************************************************************************)
(* Calls of initMIB, getMIBTree and Copy in any order                      *)
(***************************************************************************)
\* the program has started: loadedMib is nil
InitMib ==
  /\ MibIdle
  /\ HintIdle
  /\ OidIdle
  /\ NodeIdle

\* initMIB with the flag value paths, in a file system where the
\* directories opens can be opened and gomib.Load returns load
CallInitMIB ==
  /\ calls < MaxCalls
  /\ \E paths \in PathInputs : \E opens \in SUBSET DirNames : \E load \in LoadResults :
       \E sources \in {Sources(getMibsDir(paths), opens)} :
         /\ loadedMib' = LoadedAfter(loadedMib, sources, load)
         /\ mibErr' = InitMIBFails(sources, load)
         /\ lastLoad' = IF Len(sources) > 0 /\ ~load.err THEN load.mib ELSE lastLoad
  /\ lastCall' = "initMIB"
  /\ calls' = calls + 1
  /\ UNCHANGED <<mheap, mtree, mcopy>>
  /\ UNCHANGED hintVars
  /\ UNCHANGED oidVars
  /\ UNCHANGED nodeVars

\* tree := getMIBTree()
CallGetMIBTree ==
  /\ calls < MaxCalls
  /\ \E t \in {getMIBTree(loadedMib)} : mheap' = t.h /\ mtree' = t.ret
  /\ mcopy' = 0
  /\ lastCall' = "getMIBTree"
  /\ calls' = calls + 1
  /\ UNCHANGED <<loadedMib, lastLoad, mibErr>>
  /\ UNCHANGED hintVars
  /\ UNCHANGED oidVars
  /\ UNCHANGED nodeVars

\* tree.Copy() of the tree getMIBTree returned
CallCopyTree ==
  /\ lastCall = "getMIBTree"
  /\ \E c \in {Copy(mheap, mtree)} : mheap' = c.h /\ mcopy' = c.ret
  /\ lastCall' = "Copy"
  /\ UNCHANGED <<loadedMib, lastLoad, mibErr, calls, mtree>>
  /\ UNCHANGED hintVars
  /\ UNCHANGED oidVars
  /\ UNCHANGED nodeVars

NextMib == CallInitMIB \/ CallGetMIBTree \/ CallCopyTree

SpecMib == InitMib /\ [][NextMib]_vars

(***************************************************************************)
(* The grammar of DISPLAY-HINT strings, as the specification gives it:     *)
(*   spec := '*'? digits format-char sep? term?                            *)
(* with sep and term any byte that is neither a digit nor '*', and term    *)
(* only after a '*' prefix.                                                *)
(***************************************************************************)
\* the position after the digits that start at p
RECURSIVE SkipDigits(_, _)
SkipDigits(h, p) == IF p < Len(h) /\ isDigit(At(h, p)) THEN SkipDigits(h, p + 1) ELSE p

IsFormatChar(c) == c \in {Code["d"], Code["x"], Code["o"], Code["a"], Code["t"]}

IsSepChar(c) == c >= 0 /\ ~isDigit(c) /\ c # Code["*"]

\* the position of the octet-length of the spec that starts at p
LengthStart(h, p) == IF At(h, p) = Code["*"] THEN p + 1 ELSE p

\* the spec that starts at p is malformed: no octet-length digits, no format
\* character after them, or a format character outside d, x, o, a, t
MalformedAt(h, p) ==
  LET q == LengthStart(h, p)
      f == SkipDigits(h, q)
  IN f = q \/ f >= Len(h) \/ ~IsFormatChar(At(h, f))

\* the position after the well-formed spec that starts at p
SpecEnd(h, p) ==
  LET f  == SkipDigits(h, LengthStart(h, p)) + 1
      s1 == IF IsSepChar(At(h, f)) THEN f + 1 ELSE f
  IN IF At(h, p) = Code["*"] /\ s1 > f /\ IsSepChar(At(h, s1)) THEN s1 + 1 ELSE s1

RECURSIVE WellFormedFrom(_, _)
\* h[p..] is a sequence of well-formed specs
WellFormedFrom(h, p) ==
  IF p >= Len(h) THEN TRUE
  ELSE IF MalformedAt(h, p) THEN FALSE
  ELSE WellFormedFrom(h, SpecEnd(h, p))

\* h conforms to the grammar
WellFormed(h) == Len(h) > 0 /\ WellFormedFrom(h, 0)

\* the digits h[p..q-1] without their leading zeros
RECURSIVE Significant(_, _, _)
Significant(h, p, q) ==
  IF p < q /\ At(h, p) = Code["0"] THEN Significant(h, p + 1, q)
  ELSE Slice(h, p, q)

\* digit strings of the same length: a > b
RECURSIVE DigitsGreater(_, _, _)
DigitsGreater(a, b, i) ==
  IF i > Len(a) THEN FALSE
  ELSE IF a[i] # b[i] THEN a[i] > b[i]
  ELSE DigitsGreater(a, b, i + 1)

\* the octet-length of the first spec of h is greater than 2^31 - 1
FirstLengthExceedsInt32(h) ==
  LET q  == LengthStart(h, 0)
      ds == Significant(h, q, SkipDigits(h, q))
      m  == Str(<<"2", "1", "4", "7", "4", "8", "3", "6", "4", "7">>)
  IN Len(ds) > Len(m) \/ (Len(ds) = Len(m) /\ DigitsGreater(ds, m, 1))

\* the octet-length of the spec that starts at p is written with zeros only
ZeroLengthAt(h, p) ==
  LET q == LengthStart(h, p)
      f == SkipDigits(h, q)
  IN f > q /\ \A i \in q..(f - 1) : At(h, i) = Code["0"]

(***************************************************************************)
(* Properties                                                              *)
(***************************************************************************)
Max(a, b) == IF a > b THEN a ELSE b

\* the call has returned text and ok = true
Returned == pc = "done" /\ ok

\* result still holds everything the log speaks of
Running == pc \in {"small", "large"} \/ Returned

\* C1: Split(o, n) returns a head of length exactly n that holds o[i] where
\* o has a component and 0 elsewhere, and the tail o[n..]; head ++ tail is o
\* right-padded with zeros to length max(len(o), n).
C1_SplitPads ==
  opc = "split" =>
    /\ Len(head) = count
    /\ \A i \in 1..count : head[i] = IF i <= Len(oid) THEN oid[i] ELSE 0
    /\ tail = [i \in 1..Max(Len(oid) - count, 0) |-> oid[count + i]]
    /\ head \o tail = oid \o [i \in 1..(Max(Len(oid), count) - Len(oid)) |-> 0]

\* a split beyond the end of a non-empty oid: the head is padded
C1_Witness == opc = "split" /\ Len(oid) > 0 /\ count > Len(oid) /\ oid[1] # 0

\* C2: for a non-empty OID l of non-negative integers, ToList(FromList(l)) = l.
C2_RoundTrip == (opc = "roundtrip" /\ Len(oid) > 0) => list = oid

\* a round trip of an OID with a zero and a component of several digits
C2_Witness ==
  /\ opc = "roundtrip" /\ Len(oid) >= 2
  /\ \E i \in 1..Len(oid) : oid[i] >= 10
  /\ \E i \in 1..Len(oid) : oid[i] = 0

\* C3: applyDisplayHint never panics: no read of hint[hintPos] and no slice
\* data[dataPos:end] is out of range, in the stack-buffer loop and in
\* applyDisplayHintLarge, also for octet-lengths that overflow int.
C3_NeverPanics == pc # "panic"

\* applyDisplayHintLarge has returned after an instance whose end
\* dataPos + take wrapped around
C3_Witness ==
  /\ Returned
  /\ estimateOutputSize(hint, Len(data)) > smallBufferSize
  /\ \E i \in 1..Len(log) : log[i].kind = "chunk" /\ log[i].wrapped /\ log[i].from > 0

\* the loop is about to run again with the hint exhausted, input left and a
\* last spec that has no '*' and an octet-length of zero
AtDegenerateRepeat ==
  /\ pc \in {"small", "large"}
  /\ dataPos < Len(data)
  /\ hintPos >= Len(hint)
  /\ At(hint, lastSpecStart) # Code["*"]
  /\ ZeroLengthAt(hint, lastSpecStart)

\* C4: applyDisplayHint terminates for every hint and byte string; when the
\* hint is exhausted while input remains and the last spec has no '*' and
\* octet-length 0, it returns ok = false instead of looping.
C4_Terminates ==
  /\ <>(pc = "done")
  /\ [][AtDegenerateRepeat => (pc' = "done" /\ ~ok')]_vars

\* the call returned false at the repetition of a zero-length last spec that
\* had been applied once
C4_Witness ==
  /\ pc = "done" /\ ~ok
  /\ dataPos < Len(data) /\ hintPos >= Len(hint)
  /\ At(hint, lastSpecStart) # Code["*"] /\ ZeroLengthAt(hint, lastSpecStart)
  /\ Len(log) > 0

\* C5: for a hint that conforms to the grammar and a non-empty byte string,
\* a returned text is at most 4*len(b) + len(h) bytes long.
C5_OutputBound ==
  (Returned /\ Len(data) > 0 /\ WellFormed(hint)) =>
    Len(result) <= 4 * Len(data) + Len(hint)

\* C6 as stated: for a non-empty byte string, a hint that is not a sequence
\* of well-formed specs makes applyDisplayHint return ok = false, wherever
\* the malformed spec is and however many input bytes there are.
C6_MalformedAlwaysFails ==
  (pc = "done" /\ Len(data) > 0 /\ ~WellFormed(hint)) => ~ok

\* the spec the next iteration parses
NextSpecPos == IF hintPos >= Len(hint) THEN lastSpecStart ELSE hintPos

\* C6 as amended: applyDisplayHint returns "", false whenever it comes to
\* parse a malformed spec, that is whenever input remains when the loop
\* reaches it.
C6_ReachedMalformedFails ==
  [][(pc \in {"small", "large"} /\ dataPos < Len(data) /\ MalformedAt(hint, NextSpecPos))
       => (pc' = "done" /\ ~ok' /\ result' = <<>>)]_vars

\* the call returned false at a malformed spec that is not the first one,
\* with input consumed before it and input left
C6_Witness ==
  /\ pc = "done" /\ ~ok
  /\ hintPos > 0 /\ hintPos < Len(hint) /\ dataPos > 0 /\ dataPos < Len(data)
  /\ MalformedAt(hint, hintPos)

\* C7: for a non-empty byte string, a hint whose first spec has an
\* octet-length greater than 2^31 - 1 makes applyDisplayHint return
\* ok = false.
C7_HugeLengthFails ==
  (pc = "done" /\ Len(data) > 0 /\ FirstLengthExceedsInt32(hint)) => ~ok

\* C8: applyDisplayHint returns ok = false whenever the hint is the empty
\* string or the byte string is empty.
C8_EmptyFails == (pc = "done" /\ (hint = <<>> \/ Len(data) = 0)) => ~ok

\* the call has returned for a hint with no bytes to format
C8_Witness == pc = "done" /\ hint # <<>> /\ Len(data) = 0

\* the separator of instance e is in the output, right after its chunk
SepEmitted(e) == e.out2 = e.out1 + 1 /\ result[e.out2] = e.sep

\* the terminator of group g is in the output
TermEmitted(g) == g.out2 = g.out1 + 1 /\ result[g.out2] = g.term

\* instance e is the final repetition of a '*'-group that defines a terminator
FinalBeforeTerm(e) == e.star /\ e.hasTerm /\ e.r = e.n - 1

Chunks == {i \in 1..Len(log) : log[i].kind = "chunk"}

Groups == {i \in 1..Len(log) : log[i].kind = "group"}

\* C9: after each applied instance of a spec that defines a separator, the
\* separator is emitted if and only if input remains after the instance and
\* the instance is not the final repetition of a '*'-group that defines a
\* terminator (without a separator nothing is emitted); so for a hint
\* without '*' the returned text is the fields, each followed by its spec's
\* separator, with nothing after the last field.
C9_SeparatorRule ==
  Running =>
    /\ \A i \in Chunks :
         LET e == log[i]
         IN /\ e.out2 \in {e.out1, e.out1 + 1}
            /\ SepEmitted(e) <=>
                 (e.hasSep /\ e.to < Len(data) /\ ~FinalBeforeTerm(e))
    /\ (Returned /\ \A j \in 1..Len(hint) : hint[j] # Code["*"]) =>
         \A i \in Chunks :
           LET e == log[i]
           IN /\ e.out0 = (IF i = 1 THEN 0 ELSE log[i - 1].out2)
              /\ IF i + 1 = Len(log)
                 THEN e.out1 = Len(result)
                 ELSE e.hasSep => SepEmitted(e)

\* a returned call in which one instance was followed by its separator and
\* the final repetition of a '*'-group with a terminator, input remaining,
\* was not
C9_Witness ==
  /\ Returned
  /\ \E i \in Chunks : SepEmitted(log[i]) /\ log[i].star
  /\ \E i \in Chunks :
       /\ log[i].hasSep /\ FinalBeforeTerm(log[i]) /\ log[i].to < Len(data)
       /\ ~SepEmitted(log[i])

\* C10: after a '*'-group its terminator is emitted exactly once if and only
\* if a terminator is defined and input remains; an emitted terminator
\* directly follows the last chunk of the group, with no separator between
\* them; when input is exhausted on the final repetition neither separator
\* nor terminator is emitted.
C10_TerminatorRule ==
  Running =>
    \A i \in Groups :
      LET g == log[i]
      IN /\ g.out2 \in {g.out1, g.out1 + 1}
         /\ TermEmitted(g) <=> (g.hasTerm /\ g.to < Len(data))
         /\ (g.hasTerm /\ ~g.star) => FALSE
         /\ (TermEmitted(g) /\ g.r > 0) =>
              /\ log[i - 1].kind = "chunk"
              /\ log[i - 1].out2 = log[i - 1].out1
              /\ g.out1 = log[i - 1].out1
         /\ (g.star /\ g.r > 0 /\ g.to = Len(data)) =>
              /\ log[i - 1].out2 = log[i - 1].out1
              /\ g.out2 = log[i - 1].out1

\* a returned call in which a '*'-group of two repetitions was closed by
\* its terminator and a later group with a terminator ran out of input
C10_Witness ==
  /\ Returned
  /\ \E i \in Groups : log[i].star /\ log[i].r >= 2 /\ TermEmitted(log[i])
  /\ \E i \in Groups : log[i].star /\ log[i].hasTerm /\ log[i].r > 0
                       /\ log[i].to = Len(data)

\* the log entries of the instances that group i applied
GroupChunks(i) == (i - log[i].r)..(i - 1)

\* C11: for every spec with a '*' prefix exactly one input byte c is consumed
\* as the repeat count before any chunk of the spec is formatted, that byte
\* is in no chunk and puts nothing into the output, and the spec is applied
\* at most c times, fewer only when the input runs out.
C11_RepeatCount ==
  Running =>
    \A i \in Groups :
      LET g == log[i]
      IN g.star =>
           /\ g.n = data[g.from + 1]
           /\ g.r <= g.n
           /\ g.r < g.n => g.to = Len(data)
           /\ \A j \in GroupChunks(i) :
                /\ log[j].kind = "chunk" /\ log[j].n = g.n
                /\ log[j].r = j - (i - g.r)
                /\ log[j].from = (IF j = i - g.r THEN g.from + 1 ELSE log[j - 1].to)
                /\ log[j].out0 = (IF j = i - g.r THEN g.out0 ELSE log[j - 1].out2)
           /\ g.to = (IF g.r = 0 THEN g.from + 1 ELSE log[i - 1].to)
           /\ g.out1 = (IF g.r = 0 THEN g.out0 ELSE log[i - 1].out2)

\* a returned call in which one '*'-group applied its spec as often as its
\* count byte said, with input left, and another ran out of input first
C11_Witness ==
  /\ Returned
  /\ \E i \in Groups : log[i].star /\ log[i].r = log[i].n /\ log[i].n >= 2
                       /\ log[i].to < Len(data)
  /\ \E i \in Groups : log[i].star /\ log[i].r > 0 /\ log[i].r < log[i].n

\* the spec that starts at p is the last spec of the hint
LastSpecAt(h, p) == ~MalformedAt(h, p) /\ SpecEnd(h, p) = Len(h)

\* C12: when the hint is exhausted and input remains, processing restarts at
\* the first character of the last spec of the hint (with its '*' prefix, so
\* that a fresh repeat count is read, and with its separator and terminator)
\* and only that spec is applied again; no earlier spec is applied a second
\* time.
C12_ImplicitRepetition ==
  /\ \A i \in Groups : \A j \in Groups :
       i < j =>
         /\ log[i].at <= log[j].at
         /\ log[i].at = log[j].at =>
              /\ LastSpecAt(hint, log[i].at)
              /\ log[j].star = (At(hint, log[i].at) = Code["*"])
              /\ log[j].star = log[i].star /\ log[j].fmt = log[i].fmt
              /\ log[j].hasSep = log[i].hasSep /\ log[j].sep = log[i].sep
              /\ log[j].hasTerm = log[i].hasTerm /\ log[j].term = log[i].term
              /\ log[j].star => (log[j].n = data[log[j].from + 1] /\ log[j].from >= log[i].to)
  /\ (pc \in {"small", "large"} /\ hintPos >= Len(hint) /\ Len(log) > 0) =>
       /\ lastSpecStart = log[Len(log)].at
       /\ LastSpecAt(hint, lastSpecStart)

\* a returned call that applied the first spec once and then the last spec,
\* one with a '*' prefix, twice, each time with a repeat count of its own
C12_Witness ==
  /\ Returned
  /\ \E i \in Groups : \E j \in Groups : \E k \in Groups :
       /\ i < j /\ j < k
       /\ log[i].at < log[j].at /\ log[j].at = log[k].at
       /\ log[k].star /\ log[k].from = log[j].to

\* C13: trailing separators are suppressed: when applyDisplayHint returns
\* ok = true the last thing in the output is never a separator; every emitted
\* separator is followed by at least one more emitted byte.
C13_NoTrailingSeparator ==
  Returned =>
    \A i \in Chunks : SepEmitted(log[i]) => log[i].out2 < Len(result)

\* the low eight bytes of a chunk read as a big-endian number, least
\* significant byte first
ChunkWord(chunk) ==
  [i \in 1..8 |-> IF i <= Len(chunk) THEN chunk[Len(chunk) + 1 - i] ELSE 0]

RECURSIVE NumeralWord(_, _, _, _)
\* the number that the digits t[i..] continue from acc, in nine bytes
NumeralWord(t, base, i, acc) ==
  IF i > Len(t) THEN acc
  ELSE Only({ NumeralWord(t, base, i + 1, next) :
               next \in {MulAddWord(acc, base, t[i] - Code["0"], 1)} })

\* t is the numeral of the chunk's value in the base, without leading zeros
IsNumeralOf(t, base, chunk) ==
  /\ Len(t) >= 1
  /\ \A i \in 1..Len(t) : t[i] - Code["0"] \in 0..(base - 1)
  /\ Len(t) > 1 => t[1] # Code["0"]
  /\ NumeralWord(t, base, 1, ToWord(0, 9)) = ChunkWord(chunk) \o <<0>>

\* the bytes of the input that instance e took
ChunkOf(e) == SubSeq(data, e.from + 1, e.to)

\* the text that instance e put into the output
TextOf(e) == SubSeq(result, e.out0 + 1, e.out1)

\* C14: for the formats 'd' and 'o' a chunk is rendered as the base-10 or
\* base-8 numeral, without leading zeros, of the chunk read as a big-endian
\* unsigned integer; of a chunk longer than 8 bytes only the low 8 bytes
\* count (the value modulo 2^64); an empty chunk renders as "0".
C14_DecimalOctal ==
  Running =>
    \A i \in Chunks :
      /\ log[i].fmt = Code["d"] => IsNumeralOf(TextOf(log[i]), 10, ChunkOf(log[i]))
      /\ log[i].fmt = Code["o"] => IsNumeralOf(TextOf(log[i]), 8, ChunkOf(log[i]))

\* a returned call that rendered in decimal a chunk of more than 8 bytes
\* whose dropped first byte is not zero
C14_Witness ==
  /\ Returned
  /\ \E i \in Chunks :
       /\ log[i].fmt = Code["d"]
       /\ log[i].to - log[i].from > 8
       /\ data[log[i].from + 1] # 0

\* the characters 0-9 and A-F in order
UpperHex == <<48, 49, 50, 51, 52, 53, 54, 55, 56, 57, 65, 66, 67, 68, 69, 70>>

LengthDigits(h, p) == Significant(h, LengthStart(h, p), SkipDigits(h, LengthStart(h, p)))

\* the octet-length of the spec that starts at p is at most 2^31 - 1
LengthWithinInt32(h, p) ==
  LET ds == LengthDigits(h, p)
      m  == Str(<<"2", "1", "4", "7", "4", "8", "3", "6", "4", "7">>)
  IN Len(ds) < Len(m) \/ (Len(ds) = Len(m) /\ ~DigitsGreater(ds, m, 1))

\* the octet-length of the spec that starts at p is greater than rem, for a
\* rem below 100
LengthExceeds(h, p, rem) ==
  LET ds == LengthDigits(h, p)
  IN \/ Len(ds) > 2
     \/ Len(ds) = 2 /\ 10 * (ds[1] - Code["0"]) + (ds[2] - Code["0"]) > rem
     \/ Len(ds) = 1 /\ ds[1] - Code["0"] > rem

\* where the first instance of the spec the next iteration parses starts
InstanceStart == IF At(hint, NextSpecPos) = Code["*"] THEN dataPos + 1 ELSE dataPos

\* the loop is about to parse a well-formed spec whose first instance has
\* input to take, but less than its octet-length
ShortInstanceDue ==
  /\ pc \in {"small", "large"}
  /\ dataPos < Len(data)
  /\ ~MalformedAt(hint, NextSpecPos)
  /\ InstanceStart < Len(data)
  /\ At(hint, NextSpecPos) = Code["*"] => data[dataPos + 1] >= 1
  /\ LengthExceeds(hint, NextSpecPos, Len(data) - InstanceStart)

\* the iteration applied one instance to all the input that was left and the
\* loop goes on to return
ShortInstanceApplied ==
  /\ pc' = pc
  /\ dataPos' = Len(data)
  /\ Len(log') = Len(log) + 2
  /\ LET e == log'[Len(log) + 1]
     IN /\ e.kind = "chunk" /\ e.r = 0
        /\ e.from = InstanceStart /\ e.to = Len(data)
        /\ e.out0 = Len(result) /\ e.out1 = Len(result') /\ e.out2 = e.out1
  /\ SubSeq(result', 1, Len(result)) = result

\* an instance whose octet-length was greater than the input left to it
ShortChunks == {i \in Chunks : LengthExceeds(hint, log[i].at, Len(data) - log[i].from)}

\* C16: when a spec's octet-length exceeds the number of remaining input
\* bytes, the instance consumes exactly the remaining bytes, formats them as
\* one short chunk, and the call still returns ok = true.
C16_ShortFinalChunk ==
  /\ [](\A i \in ShortChunks : log[i].to = Len(data) /\ (pc = "done" => ok))
  /\ [][ShortInstanceDue => ShortInstanceApplied]_vars

\* C16 as amended: the same for a spec whose octet-length is at most 2^31 - 1.
C16_ShortChunkInRange ==
  /\ [](\A i \in ShortChunks :
          LengthWithinInt32(hint, log[i].at) =>
            (log[i].to = Len(data) /\ (pc = "done" => ok)))
  /\ [][(ShortInstanceDue /\ LengthWithinInt32(hint, NextSpecPos))
          => ShortInstanceApplied]_vars

\* a returned call whose last instance took the one byte that was left after
\* an earlier spec, for an octet-length of 2, and put it into the output
C16_Witness ==
  /\ Returned
  /\ \E i \in ShortChunks :
       /\ LengthWithinInt32(hint, log[i].at)
       /\ log[i].from > 0
       /\ log[i].to - log[i].from = 1
       /\ log[i].out1 > log[i].out0
       /\ log[i].out1 = Len(result)

\* a non-empty text with a leading dot, a trailing dot or two dots in a row
HasEmptySegment(s) ==
  /\ s # <<>>
  /\ \/ s[1] = Code["."]
     \/ s[Len(s)] = Code["."]
     \/ \E i \in 1..(Len(s) - 1) : s[i] = Code["."] /\ s[i + 1] = Code["."]

\* C17: ToList rejects a non-empty string that contains an empty segment (a
\* leading dot, a trailing dot or two consecutive dots) instead of returning
\* an OID for it; the empty string is not rejected.
C17_RejectsEmptySegments == ~(opc = "parsed" /\ HasEmptySegment(str))

\* C18: whenever applyDisplayHint returns ok = false the returned text is the
\* empty string, even when chunks, separators or terminators had already
\* been formatted before the error was detected.
C18_NoPartialOutput == (pc = "done" /\ ~ok) => result = <<>>

\* the call returned false after it had formatted a chunk, a separator and a
\* terminator
C18_Witness ==
  /\ pc = "done" /\ ~ok
  /\ \E i \in Chunks : log[i].out1 > log[i].out0
  /\ \E i \in Chunks : log[i].out2 > log[i].out1
  /\ \E i \in Groups : log[i].out2 > log[i].out1

\* C19: the optimized OID functions return, for every input, exactly what the
\* reference implementations of the benchmark return: ToList(s) =
\* oidToListOriginal(s), FromList(l) = listToOidOriginal(l), the empty list
\* included, and Split(o, n) = splitOidOriginal(o, n) for n >= 0.
C19_SameAsOriginal ==
  /\ opc = "formatted" => str = listToOidOriginal(oid)
  /\ opc \in {"parsed", "roundtrip"} => list = oidToListOriginal(str)
  /\ opc = "split" => <<head, tail>> = splitOidOriginal(oid, count)

\* ToList has returned for a text with an empty segment between two numbers
C19_Witness ==
  /\ opc = "parsed"
  /\ HasEmptySegment(str)
  /\ Len(list) = 3 /\ list[1] # 0 /\ list[3] # 0

\* C20: Node.Copy returns a deep copy: the copy has the same scalar fields,
\* the same Indexes sequence, the same EnumValues mapping and recursively
\* equal Children in the same order as the original, the call leaves the
\* original as it was, and any later change made through the copy (children
\* added, removed or edited at any depth, entries of EnumValues or Indexes
\* changed) leaves the original and all its descendants unchanged, and the
\* other way round.
C20_DeepCopy ==
  npc = "copied" =>
    /\ Value(heap, orig) = origVal
    /\ Value(heap, copy) = copyVal
    /\ edits = 0 => copyVal = origVal

\* after Copy the label of the original's root was changed through the
\* original and an index of a grandchild through the copy, and the two trees
\* now differ in just these places
C20_Witness ==
  /\ npc = "copied" /\ edits = 2
  /\ origVal.Label = "z" /\ copyVal.Label = "r"
  /\ Len(origVal.Children) = 1 /\ Len(copyVal.Children) = 1
  /\ Len(origVal.Children[1].Children) = 1 /\ Len(copyVal.Children[1].Children) = 1
  /\ origVal.Children[1].Children[1].Indexes = <<"i", "j", "k">>
  /\ copyVal.Children[1].Children[1].Indexes = <<"i", "z", "k">>

\* the node of the loaded MIB that the tree of getMIBTree is the conversion
\* of: the top-level node with sub-identifier 1, the root when there is none
HasIso(mib) == \E j \in 1..Len(mib[1].Children) : mib[1].Children[j].Arc = 1

TreeSource(mib) ==
  IF HasIso(mib)
  THEN mib[1].Children[CHOOSE j \in 1..Len(mib[1].Children) : mib[1].Children[j].Arc = 1]
  ELSE mib[1]

RECURSIVE Pairs(_, _)
\* the converted nodes under v, each with the node of the MIB it has the
\* sub-identifier of
Pairs(v, gn) ==
  {<<v, gn>>}
  \cup UNION { Pairs(v.Children[i], gn.Children[j]) :
               <<i, j>> \in { p \in (1..Len(v.Children)) \X (1..Len(gn.Children)) :
                              v.Children[p[1]].subid = gn.Children[p[2]].Arc } }

\* the tree getMIBTree has just returned for a loaded MIB, node by node
TreePairs == Pairs(Value(mheap, mtree), TreeSource(loadedMib))

TreeBuilt == lastCall = "getMIBTree" /\ loadedMib # <<>>

\* the size ranges are one range with Min = Max
OneFixedRange(sizes) == Len(sizes) = 1 /\ sizes[1].Min = sizes[1].Max

\* C21: computeFixedSize returns s if and only if the list of size ranges
\* has exactly one range and that range has Min = Max = s; for an empty
\* list, for more than one range, or for a single range with Min # Max it
\* returns 0.
C21_FixedSize ==
  TreeBuilt =>
    \A p \in TreePairs :
      /\ OneFixedRange(p[2].Sizes) => p[1].FixedSize = p[2].Sizes[1].Min
      /\ ~OneFixedRange(p[2].Sizes) => p[1].FixedSize = 0

\* getMIBTree converted nodes with no range, with one range 6..6, with one
\* range 4..6 and with two ranges
C21_Witness ==
  /\ TreeBuilt
  /\ \E p \in TreePairs : p[2].Sizes = <<>>
  /\ \E p \in TreePairs : OneFixedRange(p[2].Sizes) /\ p[1].FixedSize = 6
  /\ \E p \in TreePairs : Len(p[2].Sizes) = 1 /\ p[2].Sizes[1].Min # p[2].Sizes[1].Max
  /\ \E p \in TreePairs : Len(p[2].Sizes) = 2

\* what the call of applyDisplayHint has returned
Returns == [text |-> result, ok |-> ok, panic |-> FALSE]

\* C22: the result of applyDisplayHint does not depend on which buffer path
\* the size estimate selects: for every hint and byte string the
\* stack-buffer loop, applyDisplayHintLarge and the single-path version of
\* display_hint.go return the same (text, ok), also when the real output is
\* longer than 64 bytes although the estimate was at most 64.
C22_SameOnEveryPath ==
  pc = "done" =>
    /\ Returns = applyDisplayHintOriginal(hint, data, intBytes)
    /\ ~(hint = <<>> \/ Len(data) = 0) =>
         /\ Returns = RunSmall(hint, data, FirstState, intBytes)
         /\ Returns = RunLarge(hint, data, FirstState, intBytes)

\* the stack-buffer loop was selected and returned more than 64 bytes
C22_Witness ==
  /\ Returned
  /\ estimateOutputSize(hint, Len(data)) <= smallBufferSize
  /\ Len(result) > smallBufferSize


\* group g is a '*' spec whose repeat-count byte is 0
ZeroCount(g) == g.kind = "group" /\ g.star /\ g.n = 0

\* the spec that follows the well-formed spec at p: the next one of the hint,
\* or the same one again when it is the last
SpecAfter(p) == IF SpecEnd(hint, p) >= Len(hint) THEN p ELSE SpecEnd(hint, p)

\* C23: a '*' spec whose repeat-count byte is 0 formats no chunk, emits no
\* separator and consumes the count byte only; its terminator is emitted if
\* and only if one is defined and input remains; the loop goes on at the next
\* spec of the hint, or at the same spec when it is the last, from the byte
\* after the count (a '*' spec reads its own count there before its first
\* chunk); the spec never makes the call fail, and a call that met
\* nothing but such specs with no terminator due returns ok = true with the
\* empty text.
C23_ZeroRepeatCount ==
  \A i \in 1..Len(log) :
    LET g == log[i]
    IN ZeroCount(g) =>
         /\ data[g.from + 1] = 0
         /\ g.r = 0
         /\ i > 1 => log[i - 1].kind = "group" \/ log[i - 1].n # 0
         /\ g.to = g.from + 1
         /\ g.out1 = g.out0
         /\ g.out2 = (IF g.hasTerm /\ g.to < Len(data) THEN g.out1 + 1 ELSE g.out1)
         /\ (Running /\ g.out2 > g.out1) => result[g.out2] = g.term
         /\ i < Len(log) =>
              /\ log[i + 1].at = SpecAfter(g.at)
              /\ log[i + 1].from = (IF log[i + 1].kind = "chunk" /\ log[i + 1].star
                                    THEN g.to + 1 ELSE g.to)
         /\ (i = Len(log) /\ pc \in {"small", "large"}) =>
              dataPos = g.to /\ NextSpecPos = SpecAfter(g.at)
         /\ (i = Len(log) /\ g.to = Len(data)) =>
              pc \in {"small", "large"} \/ Returned
         /\ (Returned /\ \A j \in 1..Len(log) : ZeroCount(log[j]) /\ ~log[j].hasTerm) =>
              result = <<>>

\* a returned call in which a '*' spec with separator and terminator read the
\* count 0 with input left, emitted its terminator, and was followed by
\* another spec, and whose last spec read the count 0 at the end of the input
C23_Witness ==
  /\ Returned
  /\ \E i \in 1..(Len(log) - 1) :
       ZeroCount(log[i]) /\ log[i].hasSep /\ TermEmitted(log[i])
  /\ ZeroCount(log[Len(log)]) /\ log[Len(log)].to = Len(data)

\* the step is a call of initMIB
InitMIBStep == calls' = calls + 1 /\ lastCall' = "initMIB"

\* the step is a call of getMIBTree
GetMIBTreeStep == calls' = calls + 1 /\ lastCall' = "getMIBTree"

\* C24: loadedMib is written only by an initMIB call that succeeds: a call
\* of initMIB that returns an error leaves loadedMib as it was, getMIBTree
\* never writes it, and so in any sequence of initMIB and getMIBTree calls
\* loadedMib holds the result of the most recent successful load.
C24_WrittenOnSuccess ==
  /\ [](loadedMib = lastLoad)
  /\ [][/\ (InitMIBStep /\ mibErr') => loadedMib' = loadedMib
        /\ GetMIBTreeStep => loadedMib' = loadedMib
        /\ loadedMib' # loadedMib => InitMIBStep /\ ~mibErr']_vars

\* initMIB has returned an error after an earlier call had loaded a MIB and
\* getMIBTree had been called
C24_Witness ==
  /\ lastCall = "initMIB" /\ mibErr
  /\ loadedMib # <<>>
  /\ mtree # 0

RECURSIVE Converted(_, _)
\* the tree v is the conversion of the MIB node gn: sub-identifier, label,
\* enumeration and index names are those of gn, and the children are the
\* conversions of the children of gn, one for one
Converted(v, gn) ==
  /\ v.subid = gn.Arc /\ v.Label = gn.Label
  /\ v.EnumValues = gn.EnumValues /\ v.Indexes = gn.Indexes
  /\ Len(v.Children) = Len(gn.Children)
  /\ \A j \in 1..Len(gn.Children) :
       \E i \in 1..Len(v.Children) : Converted(v.Children[i], gn.Children[j])

\* getMIBTree has just returned
TreeReturned == lastCall = "getMIBTree"

\* C25: getMIBTree returns a node with no children and an empty, non-nil
\* EnumValues map when no MIB has been loaded; otherwise it returns the
\* converted subtree of the top-level child whose sub-identifier is 1 when
\* there is such a child, and only when there is none a synthetic head node
\* that holds all converted top-level children.
C25_TreeHead ==
  TreeReturned =>
    LET node == mheap.nodes[mtree]
        v    == Value(mheap, mtree)
    IN /\ loadedMib = <<>> =>
            /\ node.Children.len = 0
            /\ node.EnumValues # 0 /\ DOMAIN mheap.maps[node.EnumValues] = {}
       /\ (loadedMib # <<>> /\ HasIso(loadedMib)) =>
            /\ v.subid = 1
            /\ Converted(v, TreeSource(loadedMib))
       /\ (loadedMib # <<>> /\ ~HasIso(loadedMib)) =>
            /\ mtree = Len(mheap.nodes)
            /\ v.subid = 0 /\ v.Label = "" /\ v.Indexes = <<>>
            /\ node.EnumValues # 0 /\ DOMAIN mheap.maps[node.EnumValues] = {}
            /\ Converted(v, loadedMib[1])

\* getMIBTree has returned the iso subtree of a
\* MIB whose top level also holds the sub-identifiers 0 and 2
C25_Witness ==
  /\ TreeReturned /\ loadedMib # <<>>
  /\ {loadedMib[1].Children[j].Arc : j \in 1..Len(loadedMib[1].Children)} = {0, 1, 2}
  /\ mheap.nodes[mtree].subid = 1

\* the subids of the children of node n, in the order of its Children list
ChildSubids(h, n) ==
  LET kids == SliceElems(h.ptrs, h.nodes[n].Children)
  IN [i \in 1..Len(kids) |-> h.nodes[kids[i]].subid]

\* s is in non-decreasing order
NonDecreasing(s) == \A i \in 1..(Len(s) - 1) : s[i] <= s[i + 1]

\* the Children lists of the tree under n are all ordered by subid
OrderedTree(h, n) == \A m \in Reach(h, n) : NonDecreasing(ChildSubids(h, m))

\* C26: in every tree that getMIBTree returns, built by buildNodeFromGomib
\* below its top level, the Children list of every node is ordered by
\* non-decreasing subid and holds one converted node for each source child
\* (len(Children) is the number of source children), and Node.Copy of the
\* tree keeps that order at every node.
C26_ChildrenOrdered ==
  /\ lastCall \in {"getMIBTree", "Copy"} => OrderedTree(mheap, mtree)
  /\ TreeBuilt =>
       \A p \in TreePairs :
         /\ Len(p[1].Children) = Len(p[2].Children)
         /\ \A j \in 1..Len(p[2].Children) :
              Cardinality({i \in 1..Len(p[1].Children) :
                             p[1].Children[i].subid = p[2].Children[j].Arc}) = 1
  /\ lastCall = "Copy" =>
       /\ OrderedTree(mheap, mcopy)
       /\ Reach(mheap, mcopy) \cap Reach(mheap, mtree) = {}
       /\ \A i \in 1..Len(ChildSubids(mheap, mtree)) :
            ChildSubids(mheap, mcopy)[i] = ChildSubids(mheap, mtree)[i]
       /\ Value(mheap, mcopy) = Value(mheap, mtree)

\* the source order of a node's children
SourceArcs(gn) == [j \in 1..Len(gn.Children) |-> gn.Children[j].Arc]

\* Copy has returned the copy of a tree whose source lists the children of
\* the top node and those of a node below it in decreasing order
C26_Witness ==
  /\ lastCall = "Copy" /\ loadedMib # <<>>
  /\ Len(loadedMib[1].Children) >= 2
  /\ ~NonDecreasing(SourceArcs(loadedMib[1]))
  /\ \E p \in Pairs(Value(mheap, mcopy), TreeSource(loadedMib)) :
       Len(p[2].Children) >= 2 /\ ~NonDecreasing(SourceArcs(p[2]))

\* C27: estimateOutputSize is an upper bound on the formatted output: when
\* applyDisplayHint returns ok = true, the returned text is at most
\* estimateOutputSize(hint, len(data)) bytes long.
C27_EstimateIsUpperBound ==
  Returned => Len(result) <= estimateOutputSize(hint, Len(data))


=============================================================================
